---- MODULE Spec2Model ----
(***************************************************************************)
(* Device Configuration Orchestrator of edge-link: handleConfigure, the    *)
(* confirmation poller and toggleOut of src/src/components/Detail.jsx,     *)
(* with the device (shadows) and the two downstream registries as the      *)
(* environment they talk to.                                               *)
(***************************************************************************)
EXTENDS Integers, Sequences, FiniteSets, TLC

\* ------------------------------------------------------------------ bounds
\* Longest operator-built list of output intents next to the two long ones.
MaxOutputs == 2
\* +manualPort of the manual endpoint dialog, when the operator filled it in
ManualPortValue == 20000
\* the device's id counter on a device that already created entries
DeviceIdBase == 10

\* --------------------------------------------------------- program constants
\* let portCounter = 10001
PortFirst == 10001
\* if (port > 10100) throw new Error("Port range exhausted (10001-10100)")
PortLast == 10100
\* const OUTPUT_CONFIRM_DELAYS = [300, 600, 1200]
OUTPUT_CONFIRM_DELAYS == <<300, 600, 1200>>
\* undefined / null / false in an id or port position
Undefined == -1

TellyoTarget == "Tellyo Studio"
CloudportTarget == "Amagi CLOUDPORT"
ManualTarget == "Manual"
Targets == {TellyoTarget, CloudportTarget, ManualTarget}

ProfileName == "Studio-A"
videoName == "Studio-A_video"
audioName == "Studio-A_audio"
deviceIp == "203.0.113.7"

\* JS truthiness of a number-or-undefined value: undefined, null, false, 0 are falsy
Truthy(x) == x # Undefined /\ x # 0

IsPlatform(t) == t = TellyoTarget \/ t = CloudportTarget

\* sanitizeLabel(label, fallback) on the labels of the model: trim, replace
\* characters outside [A-Za-z0-9_-] by '_', lower-case
sanitizeLabel(label) ==
  CASE label = "Studio-A" -> "studio-a"
    [] label = "studio-a" -> "studio-a"
    [] label = "Other" -> "other"
    [] OTHER -> label

\* String.prototype.toLowerCase on the labels of the model
toLowerCase(label) ==
  CASE label = "Studio-A" -> "studio-a"
    [] label = "Other" -> "other"
    [] OTHER -> label

\* `srt://${deviceIp}:${port}`
StreamUrl(ip, port) == <<"srt", ip, port>>

\* ---------------------------------------------------------------- sequences
SeqFilter(s, Test(_)) == SelectSeq(s, Test)

\* Array.prototype.findIndex: first index whose element passes, 0 when none
FindIndex(s, Test(_)) ==
  IF \E i \in 1..Len(s) : Test(s[i])
  THEN CHOOSE i \in 1..Len(s) : Test(s[i]) /\ \A j \in 1..(i-1) : ~Test(s[j])
  ELSE 0

\* Array.prototype.splice(idx, 1)
RemoveAt(s, idx) == [i \in 1..(Len(s)-1) |-> IF i < idx THEN s[i] ELSE s[i+1]]

\* ------------------------------------------------------------------- state
VARIABLES
  \* operator settings and props
  safeMode, bypassVideonError, manualPort, tellyoSettingsOk, cloudportSettingsOk,
  \* the environment of a scenario: a device that answers every request and has
  \* processed a command when the sleep after it is over; an operator who
  \* configures the same profile a second time
  devReliable, rerun,
  \* React state of Detail
  profiles, configSteps, tellyoStatus, cloudStatus, err, blocked,
  \* handleConfigure: position and locals
  pc, run, cur, newOutputs, videonSuccess, encVersion, preVideoIds, preAudioIds,
  outVersion, vidId, audId, portMap, thrown,
  \* network: calls issued in this run, the payloads sent, the answers of the three
  \* deviceShadows calls, the device steps of this run whose request failed or threw
  calls, encWrite, outWrite, shRes, shRes2, finalShRes, failed, tellyoPayload, cpPayload,
  \* device
  devInputs, devEncoders, devOutputs, devVersion, devNextId, devShape, devPending,
  \* registries
  tellyoChannels, tellyoNextId, cpIngests, cpNextId, cpFilters,
  \* what the first run left behind
  firstRun,
  \* confirmation poller / toggleOut
  \* (waits: the delays slept; fetches: deviceShadows answers received; checks:
  \* what check returned on each of them; lastOuts: the list of the latest answer)
  tpc, toggleId, toggleWant, delayIdx, waits, fetches, checks, lastOuts, pollRes, outs,
  opStatus, terr, devEnabled, devToggle, toggleCalls,
  \* whether a read of the running toggle that the device answered satisfied check
  deviceConfirmed,
  \* handleRestart: position, op / err states, locals, the reads answered and the
  \* writes issued, the write the device has accepted and not yet carried out
  rpc, op, rerr, targets, version, version2, rReads, rWrites, rPending,
  \* deletions: the confirmData / delId dialogs, the position of each running action,
  \* the calls issued, whether the profile is still in the list, the dialogs the
  \* operator confirmed and those the operator cancelled, the operator's latest answer
  confirmData, delId, dpc, delCalls, profileListed, confirms, cancels, click,
  \* Tellyo client: tellyoOrgIdCache, the position of the running tellyoListChannels
  \* call, its info, its orgNumeric, the requests it has sent, its outcome, the
  \* numeric ids earlier calls resolved over the network, the calls made
  tellyoOrgIdCache, lpc, info, orgNumeric, reqs, listed, resolvedBy, nCalls,
  \* doCmd / doRename / toggleCloudport: the position of the running handler, the
  \* requests they issued, the device's name as the list shows it, cur.cloudport.alwaysOn
  cpc, cmdCalls, deviceName, alwaysOn,
  \* Tellyo client, channel calls: the position of the running call, its arguments,
  \* the requests sent, the calls made
  kpc, chanCall, chanReqs, nChan,
  \* getSrtUrl: its arguments and what it returned
  srtIn, srtOut,
  \* App: the settings, local and session storage of the browser, the effects that are
  \* due, the saves made, the settings persisted before the last reload
  settings, localStorage, sessionStorage, spc, nSaves, persisted,
  \* App, device polling effect: its position, its closure variables busy and alive,
  \* its interval timer, the loads in progress, the rows shown, the timer ticks, and
  \* the loads started, refused and failed so far
  epc, busy, alive, timer, loads, rows, ticks, started, refused, loadsFailed

settingsVars == <<safeMode, bypassVideonError, manualPort, tellyoSettingsOk, cloudportSettingsOk,
                  devReliable, rerun>>
\* what the catch block and the downstream blocks of handleConfigure set
outcomeVars == <<err, configSteps, tellyoStatus, cloudStatus, pc, calls, tellyoPayload, cpPayload>>
localVars == <<cur, newOutputs, videonSuccess, encVersion, preVideoIds, preAudioIds,
               outVersion, vidId, audId, portMap, thrown>>
writeVars == <<encWrite, outWrite, shRes, shRes2, finalShRes, failed>>
devVars == <<devInputs, devEncoders, devOutputs, devVersion, devNextId, devShape, devPending>>
regVars == <<tellyoChannels, tellyoNextId, cpIngests, cpNextId, cpFilters>>
cfgVars == <<settingsVars, outcomeVars, localVars, writeVars, devVars, regVars,
             profiles, blocked, run, firstRun>>
pollVars == <<tpc, toggleId, toggleWant, delayIdx, waits, fetches, checks, lastOuts, pollRes,
              outs, opStatus, terr, devEnabled, devToggle, toggleCalls, deviceConfirmed>>
restartVars == <<rpc, op, rerr, targets, version, version2, rReads, rWrites, rPending>>
deleteVars == <<confirmData, delId, dpc, delCalls, profileListed, confirms, cancels, click>>
listVars == <<tellyoOrgIdCache, lpc, info, orgNumeric, reqs, listed, resolvedBy, nCalls>>
cmdVars == <<cpc, cmdCalls, deviceName, alwaysOn>>
chanVars == <<kpc, chanCall, chanReqs, nChan>>
srtVars == <<srtIn, srtOut>>
storeVars == <<settings, localStorage, sessionStorage, spc, nSaves, persisted>>
loadVars == <<epc, busy, alive, timer, loads, rows, ticks, started, refused, loadsFailed>>
appVars == <<cmdVars, chanVars, srtVars, storeVars, loadVars>>
moreVars == <<restartVars, deleteVars, listVars, appVars>>
vars == <<cfgVars, pollVars, moreVars>>

\* ------------------------------------------------------------ progress log
\* pushStep(label): the running last entry becomes done, a running entry is added
pushStep(list, label) ==
  LET n == Len(list)
      closed == IF n > 0 /\ list[n].status = "running"
                THEN [list EXCEPT ![n].status = "done"] ELSE list
  IN Append(closed, [label |-> label, status |-> "running", msg |-> ""])

\* failStep(msg): the last entry becomes error and carries the message
failStep(list, msg) ==
  LET n == Len(list)
  IN IF n > 0 THEN [list EXCEPT ![n].status = "error", ![n].msg = msg] ELSE list

\* doneSteps(): the running last entry becomes done
doneSteps(list) ==
  LET n == Len(list)
  IN IF n > 0 /\ list[n].status = "running"
     THEN [list EXCEPT ![n].status = "done"] ELSE list

\* ------------------------------------------------------------ port allocator
\* a counter incremented before it is read (++portCounter)
PortAtPreIncrement(outputs, i) ==
  PortFirst + 1 + Cardinality({j \in 1..(i-1) : IsPlatform(outputs[j].target)})

\* value of portCounter when the forEach reaches index i
PortAt(outputs, i) ==
  PortFirst + Cardinality({j \in 1..(i-1) : IsPlatform(outputs[j].target)})

\* the forEach throws at the first platform output whose port exceeds 10100
RangeExhausted(outputs) ==
  \E i \in 1..Len(outputs) : IsPlatform(outputs[i].target) /\ PortAt(outputs, i) > PortLast

\* newOutputs after the pre-assignment loop: output._tempPort = portCounter++
PreAssign(outputs) ==
  [i \in 1..Len(outputs) |->
     IF IsPlatform(outputs[i].target)
     THEN [outputs[i] EXCEPT !.tempPort = PortAt(outputs, i)]
     ELSE outputs[i]]

\* ------------------------------------------------------------- device reads
NoShadow == [present |-> FALSE, version |-> Undefined, state |-> [shape |-> "none", items |-> <<>>]]
Shadow(v, shape, items) == [present |-> TRUE, version |-> v, state |-> [shape |-> shape, items |-> items]]

\* API.deviceShadows when the request succeeds
ReadDevice ==
  [Inputs   |-> Shadow(0, devShape, devInputs),
   Encoders |-> Shadow(devVersion.Encoders, devShape, devEncoders),
   Outputs  |-> Shadow(devVersion.Outputs, devShape, devOutputs)]

\* API.deviceShadows when the request fails: .catch(() => ({ shadows: demoOutputsShadow() })),
\* a list whose only element has no shadow_name
ReadDemo == [Inputs |-> NoShadow, Encoders |-> NoShadow, Outputs |-> NoShadow]

\* API.deviceShadows: either outcome
deviceShadows == IF devReliable THEN {ReadDevice} ELSE {ReadDevice, ReadDemo}

\* Object.values of a map-shaped state: the entries in insertion order
ObjectValues(state) == state.items

\* getItems(name): arrays as they are, objects through Object.values, else []
getItems(sh) ==
  IF ~sh.present THEN <<>>
  ELSE IF sh.state.shape = "array" THEN sh.state.items
  ELSE IF sh.state.shape = "map" THEN ObjectValues(sh.state)
  ELSE <<>>

\* current_version ?? version ?? 0
VersionOf(sh) == IF sh.present THEN sh.version ELSE 0

\* inputId = getItems('Inputs')?.[0]?.id
InputIdOf(read) ==
  LET items == getItems(read.Inputs)
  IN IF Len(items) > 0 THEN items[1].id ELSE Undefined

IsVideo(e) == e.type = "video"
IsAudio(e) == e.type = "audio"

\* preVideoIds / preAudioIds
PreIds(items, kind) == {items[i].id : i \in {j \in 1..Len(items) : items[j].type = kind}}

\* nextEncoders: same-named entries filtered out, the two new entries pushed
NotOurName(e) == e.name # videoName /\ e.name # audioName
NextEncoders(items) ==
  SeqFilter(items, NotOurName)
    \o << [id |-> Undefined, type |-> "video", name |-> videoName],
          [id |-> Undefined, type |-> "audio", name |-> audioName] >>

\* findId2(sName, iName): id of the first entry with that name, undefined when none
findId2(sh, iName) ==
  LET list == IF sh.present /\ sh.state.shape # "none"
              THEN (IF sh.state.shape = "array" THEN sh.state.items ELSE ObjectValues(sh.state))
              ELSE <<>>
      idx == FindIndex(list, LAMBDA i : i.name = iName)
  IN IF idx = 0 THEN Undefined ELSE list[idx].id

\* fallback: first entry of the kind whose id is not in the pre-write set
NewIdOf(sh, kind, preIds) ==
  LET list == IF sh.present /\ sh.state.shape # "none"
              THEN (IF sh.state.shape = "array" THEN sh.state.items ELSE ObjectValues(sh.state))
              ELSE <<>>
      idx == FindIndex(list, LAMBDA e : e.type = kind /\ e.id \notin preIds)
  IN IF idx = 0 THEN Undefined ELSE list[idx].id

\* vidId / audId after name lookup and fallback (the fallback block runs when
\* either id is falsy, and then replaces only the falsy ones)
ResolveId(sh, iName, kind, preIds) ==
  LET byName == findId2(sh, iName)
  IN IF ~Truthy(byName)
     THEN (IF NewIdOf(sh, kind, preIds) # Undefined
           THEN NewIdOf(sh, kind, preIds) ELSE byName)
     ELSE byName

\* ------------------------------------------------------------ WriteOutputs
\* a pushed entry that names no source encoders
EntryWithoutSources(port, vId, aId) ==
  [id |-> Undefined, type |-> "srt", port |-> port, enable |-> TRUE,
   call_mode |-> "LISTENER", video |-> Undefined, audio |-> Undefined]

\* the entry pushed for a platform target (listener on the pre-assigned port)
ListenerEntry(port, vId, aId) ==
  [id |-> Undefined, type |-> "srt", port |-> port, enable |-> TRUE,
   call_mode |-> "LISTENER", video |-> vId, audio |-> aId]

\* the entry pushed for any other target when manualIp && manualPort
CallerEntry(port, vId, aId) ==
  [id |-> Undefined, type |-> "srt", port |-> port, enable |-> TRUE,
   call_mode |-> "CALLER", video |-> vId, audio |-> aId]

\* the videonIds the forEach looks up, in order: those of the outputs that have one
TrackedIds(nOut) ==
  LET tracked == SelectSeq(nOut, LAMBDA o : Truthy(o.videonId))
  IN [i \in 1..Len(tracked) |-> tracked[i].videonId]

RECURSIVE RemoveTracked(_, _)
\* nextOutputs.splice(findIndex(o => (o.out_stream_id || o.id) === output.videonId), 1)
\* for each tracked id in turn; the entries pushed meanwhile have id false and are
\* never found, so the removals see the pre-existing entries only
RemoveTracked(acc, ids) ==
  IF Len(ids) = 0 THEN acc
  ELSE LET idx == FindIndex(acc, LAMBDA e : e.id = Head(ids))
       IN RemoveTracked(IF idx # 0 THEN RemoveAt(acc, idx) ELSE acc, Tail(ids))

\* does the forEach push an entry for newOutputs[k]
Pushes(o, mPort) == IsPlatform(o.target) \/ Truthy(mPort)

\* the entry pushed for newOutputs[k]; index = k - 1
PushedEntry(o, k, vId, aId, mPort) ==
  IF IsPlatform(o.target)
  THEN ListenerEntry(o.tempPort, vId, aId)
  ELSE CallerEntry(mPort + (k - 1), vId, aId)

\* nextOutputs after newOutputs.forEach: tracked entries removed, new ones appended
BuildOutputs(current, nOut, vId, aId, mPort) ==
  LET ks == SelectSeq([k \in 1..Len(nOut) |-> k], LAMBDA k : Pushes(nOut[k], mPort))
  IN RemoveTracked(current, TrackedIds(nOut))
       \o [i \in 1..Len(ks) |-> PushedEntry(nOut[ks[i]], ks[i], vId, aId, mPort)]

\* currentOutputs: the reported state or [], arrays copied, objects through Object.values
CurrentOutputs(sh) ==
  IF ~sh.present THEN <<>>
  ELSE IF sh.state.shape = "array" THEN sh.state.items ELSE ObjectValues(sh.state)

\* portMap[port] = index, for the platform outputs
PortMapOf(nOut) ==
  [p \in {nOut[i].tempPort : i \in {j \in 1..Len(nOut) : IsPlatform(nOut[j].target)}} |->
     CHOOSE i \in 1..Len(nOut) :
       /\ IsPlatform(nOut[i].target) /\ nOut[i].tempPort = p
       /\ \A j \in (i+1)..Len(nOut) : ~(IsPlatform(nOut[j].target) /\ nOut[j].tempPort = p)]

\* ----------------------------------------------------------- VerifyOutputs
\* reported entries an intent is matched by: srt, truthy port, portMap[port] = k
MatchesOf(items, pm, k) ==
  {i \in 1..Len(items) :
     /\ items[i].type = "srt" /\ Truthy(items[i].port)
     /\ items[i].port \in DOMAIN pm /\ pm[items[i].port] = k}

\* the last matching entry wins (reported.forEach overwrites)
LastOf(S) == CHOOSE i \in S : \A j \in S : j <= i

\* newOutputs after: if (Array.isArray(reported)) reported.forEach(ro => ...)
MatchReported(sh, nOut, pm) ==
  IF sh.present /\ sh.state.shape = "array"
  THEN [k \in 1..Len(nOut) |->
          IF MatchesOf(sh.state.items, pm, k) # {}
          THEN [nOut[k] EXCEPT !.videonId = sh.state.items[LastOf(MatchesOf(sh.state.items, pm, k))].id]
          ELSE nOut[k]]
  ELSE nOut

\* --------------------------------------------------------------- registries
NoUrl == <<>>
NoPayload == [op |-> "none", id |-> Undefined, label |-> "", streamUrl |-> NoUrl]
Status(st, msg) == [state |-> st, message |-> msg]

\* channelName = telConfig.channelName || sanitizeLabel(cur.name, 'lec_channel')
ChannelNameOf(p) ==
  IF p.tellyo.channelName # "" THEN p.tellyo.channelName ELSE sanitizeLabel(ProfileName)

\* ingestLabel = cpConfig.ingestLabel || sanitizeLabel(cur.name, 'lec_ingest')
IngestLabelOf(p) ==
  IF p.cloudport.ingestLabel # "" THEN p.cloudport.ingestLabel ELSE sanitizeLabel(ProfileName)

\* a lookup by the remembered id alone, without the lookup by name
FindChannelByIdOnly(channels, p) ==
  IF Truthy(p.tellyo.lastChannelId)
  THEN FindIndex(channels, LAMBDA c : c.id = p.tellyo.lastChannelId) ELSE 0

\* channel = lastChannelId ? channels.find(by id) : null; if (!channel) channels.find(by name);
\* the position in channels, 0 when none
FindChannel(channels, p) ==
  LET byId == IF Truthy(p.tellyo.lastChannelId)
              THEN FindIndex(channels, LAMBDA c : c.id = p.tellyo.lastChannelId) ELSE 0
  IN IF byId # 0 THEN byId
     ELSE FindIndex(channels, LAMBDA c : c.label = ChannelNameOf(p))

\* the list the Ingest Registry answers GET ?ingest_label=<label> with
CpListing(label) ==
  IF cpFilters THEN SelectSeq(cpIngests, LAMBDA x : x.label = label) ELSE cpIngests

\* API.cloudportFetchByLabel: exact match, else case-insensitive, else the first
\* ingest of the answer; the position in ingests, 0 when the answer is empty
cloudportFetchByLabel(ingests, label) ==
  LET exact == FindIndex(ingests, LAMBDA x : x.label = label)
      lower == FindIndex(ingests, LAMBDA x : toLowerCase(x.label) = toLowerCase(label))
  IN IF Len(ingests) = 0 THEN 0
     ELSE IF exact # 0 THEN exact
     ELSE IF lower # 0 THEN lower
     ELSE 1

\* the registry applying an update: the entity takes the payload's label and URL
ApplyUpdate(entities, id, label, url) ==
  [i \in 1..Len(entities) |->
     IF entities[i].id = id
     THEN [entities[i] EXCEPT !.label = label, !.streamUrl = url]
     ELSE entities[i]]

HasId(entities, id) == \E i \in 1..Len(entities) : entities[i].id = id

\* ------------------------------------------------- handleConfigure: downstream
\* Cloudport block up to its first await, then doneSteps() when nothing is awaited
CloudportBlock(steps0, nOut, callsNow) ==
  LET cpOuts == SelectSeq(nOut, LAMBDA o : o.target = CloudportTarget)
  IN IF Len(cpOuts) > 0 /\ Truthy(cpOuts[1].tempPort)
     THEN IF ~cloudportSettingsOk
          THEN /\ cloudStatus' = Status("error", "Cloudport settings missing")
               /\ configSteps' = doneSteps(steps0)
               /\ pc' = "Done"
               /\ calls' = callsNow
               /\ cpPayload' = cpPayload
          ELSE /\ cloudStatus' = Status("pending", "Configuring ...")
               /\ configSteps' = steps0
               /\ pc' = "CloudportSleep"
               /\ calls' = callsNow
               /\ cpPayload' = [op |-> "none", id |-> Undefined,
                                label |-> IngestLabelOf(cur),
                                streamUrl |-> StreamUrl(deviceIp, cpOuts[1].tempPort)]
     ELSE /\ cloudStatus' = Status("idle", "")
          /\ configSteps' = doneSteps(steps0)
          /\ pc' = "Done"
          /\ calls' = callsNow
          /\ cpPayload' = cpPayload

\* Tellyo block up to its first await; falls through to the Cloudport block
TellyoBlock(steps0, nOut, callsNow) ==
  LET tellyoOuts == SelectSeq(nOut, LAMBDA o : o.target = TellyoTarget)
  IN IF Len(tellyoOuts) > 0 /\ Truthy(tellyoOuts[1].tempPort)
     THEN IF ~tellyoSettingsOk
          THEN /\ tellyoStatus' = Status("error", "Tellyo settings missing")
               /\ tellyoPayload' = tellyoPayload
               /\ CloudportBlock(steps0, nOut, callsNow)
          ELSE /\ tellyoStatus' = Status("pending", "Configuring ...")
               /\ tellyoPayload' = [op |-> "none", id |-> Undefined,
                                    label |-> ChannelNameOf(cur),
                                    streamUrl |-> StreamUrl(deviceIp, tellyoOuts[1].tempPort)]
               /\ configSteps' = steps0
               /\ pc' = "TellyoList"
               /\ calls' = Append(callsNow, "tellyoListChannels")
               /\ UNCHANGED <<cloudStatus, cpPayload>>
     ELSE /\ tellyoStatus' = Status("idle", "")
          /\ tellyoPayload' = tellyoPayload
          /\ CloudportBlock(steps0, nOut, callsNow)

\* a Tellyo error that ends the run: the Cloudport block is skipped
TellyoCatchAbort(msg) ==
  /\ tellyoStatus' = Status("error", msg)
  /\ tellyoPayload' = tellyoPayload
  /\ cloudStatus' = Status("idle", "")
  /\ configSteps' = failStep(configSteps, msg)
  /\ pc' = "Done"
  /\ UNCHANGED <<calls, cpPayload>>

\* catch (e) of the Tellyo block: the error is the channel status, the Cloudport
\* block follows
TellyoCatch(msg) ==
  /\ tellyoStatus' = Status("error", msg)
  /\ tellyoPayload' = tellyoPayload
  /\ CloudportBlock(configSteps, newOutputs, calls)

\* pushStep("Configuring external services...") and the two blocks
ConfigureDownstream(steps0, nOut) ==
  TellyoBlock(pushStep(steps0, "Configuring external services..."), nOut, calls)

\* a catch that ignores the bypass flag
CatchNoBypass(msg, nOut) ==
  /\ err' = <<"Videon config failed: ", msg>>
  /\ configSteps' = failStep(configSteps, msg)
  /\ cloudStatus' = Status("idle", "")
  /\ tellyoStatus' = Status("idle", "")
  /\ pc' = "Failed"
  /\ UNCHANGED <<calls, tellyoPayload, cpPayload>>

\* a catch that sends a failed Encoders write again
CatchRetryWrite(msg, nOut) ==
  IF pc = "WriteEncoders"
  THEN /\ calls' = Append(calls, "setDeviceShadows Encoders")
       /\ pc' = "WriteEncoders"
       /\ UNCHANGED <<err, configSteps, cloudStatus, tellyoStatus, tellyoPayload, cpPayload>>
  ELSE CatchNoBypass(msg, nOut)

\* catch (e) of the device steps: bypass goes on, otherwise the run fails
Catch(msg, nOut) ==
  IF bypassVideonError
  THEN /\ err' = <<"Videon config failed (Bypassed): ", msg>>
       /\ ConfigureDownstream(configSteps, nOut)
  ELSE /\ err' = <<"Videon config failed: ", msg>>
       /\ configSteps' = failStep(configSteps, msg)
       /\ cloudStatus' = Status("idle", "")
       /\ tellyoStatus' = Status("idle", "")
       /\ pc' = "Failed"
       /\ UNCHANGED <<calls, tellyoPayload, cpPayload>>

\* ----------------------------------------------------------------- device
NoCommand == <<>>

\* the device giving ids to the entries written without one, in order
AssignIds(items, next) ==
  [i \in 1..Len(items) |->
     IF items[i].id = Undefined
     THEN [items[i] EXCEPT !.id = next + Cardinality({j \in 1..(i-1) : items[j].id = Undefined})]
     ELSE items[i]]

NewCount(items) == Cardinality({i \in 1..Len(items) : items[i].id = Undefined})

\* a device that reports entries without their names
Unnamed(items) == [i \in 1..Len(items) |-> [items[i] EXCEPT !.name = ""]]

\* The device processes an accepted Encoders command: the written state replaces
\* the reported one, new entries get ids, the version moves on.
DeviceApplyEncoders ==
  /\ devPending.Encoders # NoCommand
  /\ \E keepNames \in (IF devReliable THEN {TRUE} ELSE BOOLEAN) :
       LET applied == AssignIds(devPending.Encoders[1], devNextId)
       IN devEncoders' = IF keepNames THEN applied ELSE Unnamed(applied)
  /\ devNextId' = devNextId + NewCount(devPending.Encoders[1])
  /\ devVersion' = [devVersion EXCEPT !.Encoders = @ + 1]
  /\ devPending' = [devPending EXCEPT !.Encoders = NoCommand]
  /\ UNCHANGED <<devInputs, devOutputs, devShape>>
  /\ UNCHANGED <<settingsVars, outcomeVars, localVars, writeVars, regVars,
                 profiles, blocked, run, firstRun, pollVars, moreVars>>

\* The device processes an accepted Outputs command.
DeviceApplyOutputs ==
  /\ devPending.Outputs # NoCommand
  /\ devOutputs' = AssignIds(devPending.Outputs[1], devNextId)
  /\ devNextId' = devNextId + NewCount(devPending.Outputs[1])
  /\ devVersion' = [devVersion EXCEPT !.Outputs = @ + 1]
  /\ devPending' = [devPending EXCEPT !.Outputs = NoCommand]
  /\ UNCHANGED <<devInputs, devEncoders, devShape>>
  /\ UNCHANGED <<settingsVars, outcomeVars, localVars, writeVars, regVars,
                 profiles, blocked, run, firstRun, pollVars, moreVars>>

\* POST shadows/commands answered 2xx: the device takes the command when the
\* target_version is its current version and drops it otherwise
Accept(shadow, cmd) ==
  IF cmd.target_version = devVersion[shadow]
  THEN devPending' = [devPending EXCEPT ![shadow] = <<cmd.state>>]
  ELSE devPending' = devPending

\* ------------------------------------------------- handleConfigure: device steps
RunEnded == pc \in {"Done", "Failed", "Thrown"}

\* handleConfigure up to its first await (lines 252-286)
handleConfigure ==
  /\ \/ pc = "Idle" /\ run = "none"
     \/ RunEnded /\ run = "first" /\ rerun
  /\ IF safeMode
     THEN /\ blocked' = TRUE
          /\ UNCHANGED <<settingsVars, outcomeVars, localVars, writeVars, devVars, regVars,
                         profiles, run, firstRun, pollVars, moreVars>>
     ELSE /\ run' = IF run = "none" THEN "first" ELSE "second"
          /\ firstRun' = IF run = "none" THEN firstRun
                         ELSE [tellyo |-> tellyoStatus.state, cloud |-> cloudStatus.state,
                               channels |-> Len(tellyoChannels), ingests |-> Len(cpIngests)]
          /\ cur' = profiles
          /\ err' = <<>>
          /\ tellyoStatus' = Status("pending", "Waiting for Videon...")
          /\ cloudStatus' = Status("pending", "Waiting for Videon...")
          /\ videonSuccess' = FALSE
          /\ encVersion' = Undefined /\ outVersion' = Undefined
          /\ preVideoIds' = {} /\ preAudioIds' = {}
          /\ vidId' = Undefined /\ audId' = Undefined
          /\ portMap' = <<>>
          /\ tellyoPayload' = NoPayload /\ cpPayload' = NoPayload
          /\ encWrite' = NoCommand /\ outWrite' = NoCommand
          /\ shRes' = ReadDemo /\ shRes2' = ReadDemo /\ finalShRes' = ReadDemo
          /\ failed' = {}
          /\ IF RangeExhausted(profiles.outputs)
             THEN /\ thrown' = "Port range exhausted (10001-10100)"
                  /\ newOutputs' = <<>>
                  /\ configSteps' = <<[label |-> "Initializing configuration...",
                                       status |-> "running", msg |-> ""]>>
                  /\ calls' = <<>>
                  /\ pc' = "Thrown"
             ELSE /\ thrown' = ""
                  /\ newOutputs' = PreAssign(profiles.outputs)
                  /\ configSteps' = pushStep(<<[label |-> "Initializing configuration...",
                                                status |-> "running", msg |-> ""]>>,
                                             "Fetching device state...")
                  /\ calls' = <<"deviceShadows">>
                  /\ pc' = "FetchState"
          /\ UNCHANGED <<settingsVars, devVars, regVars, profiles, blocked, pollVars, moreVars>>

\* after the first deviceShadows: lines 287-366, up to the await of the Encoders write
FetchState ==
  /\ pc = "FetchState"
  /\ \E r \in deviceShadows :
       LET currentEncoders == getItems(r.Encoders)
       IN /\ shRes' = r
          /\ failed' = IF r = ReadDemo THEN failed \cup {"FetchState read"} ELSE failed
          /\ encVersion' = VersionOf(r.Encoders)
          /\ preVideoIds' = PreIds(currentEncoders, "video")
          /\ preAudioIds' = PreIds(currentEncoders, "audio")
          /\ encWrite' = [target_version |-> VersionOf(r.Encoders),
                          state |-> NextEncoders(currentEncoders),
                          in_channel_id |-> InputIdOf(r)]
  /\ configSteps' = pushStep(configSteps, "Configuring encoders...")
  /\ calls' = Append(calls, "setDeviceShadows Encoders")
  /\ pc' = "WriteEncoders"
  /\ UNCHANGED <<err, tellyoStatus, cloudStatus, tellyoPayload, cpPayload>>
  /\ UNCHANGED <<cur, newOutputs, videonSuccess, outVersion, vidId, audId, portMap, thrown>>
  /\ UNCHANGED <<outWrite, shRes2, finalShRes>>
  /\ UNCHANGED <<settingsVars, devVars, regVars, profiles, blocked, run, firstRun, pollVars, moreVars>>

\* the Encoders write answered: acknowledged (lines 370-374) or thrown (catch)
WriteEncoders ==
  /\ pc = "WriteEncoders"
  /\ \/ /\ Accept("Encoders", encWrite)
        /\ configSteps' = pushStep(configSteps, "Waiting for encoders to initialize (20s)...")
        /\ pc' = "AwaitEncoders"
        /\ failed' = failed
        /\ UNCHANGED <<err, tellyoStatus, cloudStatus, calls, tellyoPayload, cpPayload>>
     \/ /\ ~devReliable
        /\ Catch("503 Service Unavailable", newOutputs)
        /\ failed' = failed \cup {"WriteEncoders"}
        /\ devPending' = devPending
  /\ UNCHANGED <<devInputs, devEncoders, devOutputs, devVersion, devNextId, devShape>>
  /\ UNCHANGED <<encWrite, outWrite, shRes, shRes2, finalShRes>>
  /\ UNCHANGED <<settingsVars, localVars, regVars, profiles, blocked, run,
                 firstRun, pollVars, moreVars>>

\* sleep(20000) over: lines 376-380, up to the await of the second deviceShadows
AwaitEncoders ==
  /\ pc = "AwaitEncoders"
  /\ devReliable => devPending.Encoders = NoCommand
  /\ configSteps' = pushStep(configSteps, "Verifying encoder creation...")
  /\ calls' = Append(calls, "deviceShadows")
  /\ pc' = "VerifyEncoders"
  /\ UNCHANGED <<err, tellyoStatus, cloudStatus, tellyoPayload, cpPayload>>
  /\ UNCHANGED <<settingsVars, localVars, writeVars, devVars, regVars, profiles, blocked,
                 run, firstRun, pollVars, moreVars>>

\* after the second deviceShadows: lines 381-500, up to the await of the Outputs write
VerifyEncoders ==
  /\ pc = "VerifyEncoders"
  /\ \E r \in deviceShadows :
       LET v == ResolveId(r.Encoders, videoName, "video", preVideoIds)
           a == ResolveId(r.Encoders, audioName, "audio", preAudioIds)
           readFailed == IF r = ReadDemo THEN {"VerifyEncoders read"} ELSE {}
       IN /\ shRes2' = r
          /\ outVersion' = VersionOf(r.Outputs)
          /\ vidId' = v
          /\ audId' = a
          /\ IF ~Truthy(v)
             THEN /\ Catch("Video encoder '' not found after creation.", newOutputs)
                  /\ failed' = failed \cup readFailed \cup {"VerifyEncoders"}
                  /\ UNCHANGED <<portMap, outWrite>>
             ELSE IF ~Truthy(a)
             THEN /\ Catch("Audio encoder '' not found after creation.", newOutputs)
                  /\ failed' = failed \cup readFailed \cup {"VerifyEncoders"}
                  /\ UNCHANGED <<portMap, outWrite>>
             ELSE /\ failed' = failed \cup readFailed
                  /\ portMap' = PortMapOf(newOutputs)
                  /\ outWrite' = [target_version |-> VersionOf(r.Outputs),
                                  state |-> BuildOutputs(CurrentOutputs(r.Outputs),
                                                         newOutputs, v, a, manualPort)]
                  /\ configSteps' = pushStep(configSteps, "Configuring outputs...")
                  /\ calls' = Append(calls, "setDeviceShadows Outputs")
                  /\ pc' = "WriteOutputs"
                  /\ UNCHANGED <<err, tellyoStatus, cloudStatus, tellyoPayload, cpPayload>>
  /\ UNCHANGED <<cur, newOutputs, videonSuccess, encVersion, preVideoIds, preAudioIds, thrown>>
  /\ UNCHANGED <<encWrite, shRes, finalShRes>>
  /\ UNCHANGED <<settingsVars, devVars, regVars, profiles, blocked, run, firstRun, pollVars, moreVars>>

\* the Outputs write answered: acknowledged (lines 504-508) or thrown (catch)
WriteOutputs ==
  /\ pc = "WriteOutputs"
  /\ \/ /\ Accept("Outputs", outWrite)
        /\ configSteps' = pushStep(configSteps, "Finalizing Videon configuration...")
        /\ pc' = "AwaitOutputs"
        /\ failed' = failed
        /\ UNCHANGED <<err, tellyoStatus, cloudStatus, calls, tellyoPayload, cpPayload>>
     \/ /\ ~devReliable
        /\ Catch("503 Service Unavailable", newOutputs)
        /\ failed' = failed \cup {"WriteOutputs"}
        /\ devPending' = devPending
  /\ UNCHANGED <<devInputs, devEncoders, devOutputs, devVersion, devNextId, devShape>>
  /\ UNCHANGED <<encWrite, outWrite, shRes, shRes2, finalShRes>>
  /\ UNCHANGED <<settingsVars, localVars, regVars, profiles, blocked, run,
                 firstRun, pollVars, moreVars>>

\* sleep(2000) over: line 510, the await of the third deviceShadows
AwaitOutputs ==
  /\ pc = "AwaitOutputs"
  /\ devReliable => devPending.Outputs = NoCommand
  /\ calls' = Append(calls, "deviceShadows")
  /\ pc' = "VerifyOutputs"
  /\ UNCHANGED <<err, configSteps, tellyoStatus, cloudStatus, tellyoPayload, cpPayload>>
  /\ UNCHANGED <<settingsVars, localVars, writeVars, devVars, regVars, profiles, blocked,
                 run, firstRun, pollVars, moreVars>>

\* after the third deviceShadows: lines 511-566, the ids recorded, the profile
\* stored, then the downstream blocks up to their first await
VerifyOutputs ==
  /\ pc = "VerifyOutputs"
  /\ \E r \in deviceShadows :
       /\ finalShRes' = r
       /\ failed' = IF r = ReadDemo THEN failed \cup {"VerifyOutputs read"} ELSE failed
       /\ newOutputs' = MatchReported(r.Outputs, newOutputs, portMap)
  /\ profiles' = [profiles EXCEPT !.outputs = newOutputs']
  /\ videonSuccess' = TRUE
  /\ err' = err
  /\ ConfigureDownstream(configSteps, newOutputs')
  /\ UNCHANGED <<cur, encVersion, preVideoIds, preAudioIds, outVersion, vidId, audId,
                 portMap, thrown>>
  /\ UNCHANGED <<encWrite, outWrite, shRes, shRes2>>
  /\ UNCHANGED <<settingsVars, devVars, regVars, blocked, run, firstRun, pollVars, moreVars>>

\* --------------------------------------------- handleConfigure: downstream steps
\* API.tellyoListChannels answered: lines 567-576, up to the await of the upsert
TellyoList ==
  /\ pc = "TellyoList"
  /\ \/ \* the listing failed: catch of the Tellyo block
        /\ TellyoCatch("tellyoListChannels failed")
     \/ \* buildTellyoChannelPayload throws when the profile name is not set
        /\ cur.tellyo.profile = ""
        /\ TellyoCatch("Tellyo Profile Name is required.")
     \/ /\ cur.tellyo.profile # ""
        /\ LET idx == FindChannel(tellyoChannels, cur)
           IN IF idx # 0
              THEN /\ tellyoPayload' = [tellyoPayload EXCEPT !.op = "update",
                                                             !.id = tellyoChannels[idx].id]
                   /\ calls' = Append(calls, "tellyoUpdateChannel")
              ELSE /\ tellyoPayload' = [tellyoPayload EXCEPT !.op = "create"]
                   /\ calls' = Append(calls, "tellyoCreateChannel")
        /\ pc' = "TellyoUpsert"
        /\ UNCHANGED <<tellyoStatus, cloudStatus, configSteps, cpPayload>>
  /\ err' = err
  /\ UNCHANGED <<settingsVars, localVars, writeVars, devVars, regVars, profiles, blocked,
                 run, firstRun, pollVars, moreVars>>

\* stored profile after setProfiles(... tellyo: { ...p.tellyo, lastChannelId, lastStreamUrl })
RememberChannel(p, id, url) ==
  [p EXCEPT !.tellyo.lastChannelId = id, !.tellyo.lastStreamUrl = url]

\* stored profile after setProfiles(... cloudport: { ...p.cloudport, lastIngestId, lastStreamUrl })
RememberIngest(p, id, url) ==
  [p EXCEPT !.cloudport.lastIngestId = id, !.cloudport.lastStreamUrl = url]

\* tellyoUpdateChannel / tellyoCreateChannel answered: lines 573-585, then the
\* Cloudport block up to its first await
TellyoUpsert ==
  /\ pc = "TellyoUpsert"
  /\ \/ \* the call failed
        /\ tellyoStatus' = Status("error", "channel request failed")
        /\ UNCHANGED <<tellyoChannels, tellyoNextId, profiles>>
     \/ /\ tellyoPayload.op = "update"
        /\ HasId(tellyoChannels, tellyoPayload.id)
        /\ tellyoChannels' = ApplyUpdate(tellyoChannels, tellyoPayload.id,
                                         tellyoPayload.label, tellyoPayload.streamUrl)
        /\ tellyoNextId' = tellyoNextId
        /\ tellyoStatus' = Status("success", "Channel updated")
        /\ profiles' = IF Truthy(tellyoPayload.id)
                       THEN RememberChannel(profiles, tellyoPayload.id, tellyoPayload.streamUrl)
                       ELSE profiles
     \/ /\ tellyoPayload.op = "create"
        /\ tellyoChannels' = Append(tellyoChannels,
                                    [id |-> tellyoNextId, label |-> tellyoPayload.label,
                                     streamUrl |-> tellyoPayload.streamUrl])
        /\ tellyoNextId' = tellyoNextId + 1
        /\ tellyoStatus' = Status("success", "Channel created")
        /\ \E withChannel \in BOOLEAN :
             \* channel = res.channel; if (channel?.id) setProfiles(...)
             profiles' = IF withChannel /\ Truthy(tellyoNextId)
                         THEN RememberChannel(profiles, tellyoNextId, tellyoPayload.streamUrl)
                         ELSE profiles
  /\ tellyoPayload' = tellyoPayload
  /\ err' = err
  /\ CloudportBlock(configSteps, newOutputs, calls)
  /\ UNCHANGED <<cpIngests, cpNextId, cpFilters>>
  /\ UNCHANGED <<settingsVars, localVars, writeVars, devVars, blocked, run, firstRun, pollVars, moreVars>>

\* sleep(1000) over: line 640, the await of cloudportFetchByLabel
CloudportSleep ==
  /\ pc = "CloudportSleep"
  /\ calls' = Append(calls, "cloudportFetchByLabel")
  /\ pc' = "CloudportFetch"
  /\ UNCHANGED <<err, configSteps, tellyoStatus, cloudStatus, tellyoPayload, cpPayload>>
  /\ UNCHANGED <<settingsVars, localVars, writeVars, devVars, regVars, profiles, blocked,
                 run, firstRun, pollVars, moreVars>>

\* cloudportFetchByLabel answered: lines 642-648, up to the await of the upsert
CloudportFetch ==
  /\ pc = "CloudportFetch"
  /\ \/ \* the lookup failed: catch of the Cloudport block, then doneSteps()
        /\ cloudStatus' = Status("error", "cloudportFetchByLabel failed")
        /\ configSteps' = doneSteps(configSteps)
        /\ pc' = "Done"
        /\ UNCHANGED <<calls, cpPayload>>
     \/ LET ingests == CpListing(cpPayload.label)
            m == cloudportFetchByLabel(ingests, cpPayload.label)
        IN /\ IF m # 0
              THEN /\ cpPayload' = [cpPayload EXCEPT !.op = "update", !.id = ingests[m].id]
                   /\ calls' = Append(calls, "cloudportUpdate")
              ELSE /\ cpPayload' = [cpPayload EXCEPT !.op = "create"]
                   /\ calls' = Append(calls, "cloudportCreate")
           /\ pc' = "CloudportUpsert"
           /\ UNCHANGED <<cloudStatus, configSteps>>
  /\ UNCHANGED <<err, tellyoStatus, tellyoPayload>>
  /\ UNCHANGED <<settingsVars, localVars, writeVars, devVars, regVars, profiles, blocked,
                 run, firstRun, pollVars, moreVars>>

\* cloudportUpdate / cloudportCreate answered: lines 645-655, then doneSteps()
CloudportUpsert ==
  /\ pc = "CloudportUpsert"
  /\ \/ \* the call failed
        /\ cloudStatus' = Status("error", "ingest request failed")
        /\ UNCHANGED <<cpIngests, cpNextId, profiles>>
     \/ /\ cpPayload.op = "update"
        /\ HasId(cpIngests, cpPayload.id)
        /\ cpIngests' = ApplyUpdate(cpIngests, cpPayload.id, cpPayload.label, cpPayload.streamUrl)
        /\ cpNextId' = cpNextId
        /\ cloudStatus' = Status("success", "Ingest updated")
        /\ profiles' = RememberIngest(profiles, cpPayload.id, cpPayload.streamUrl)
     \/ /\ cpPayload.op = "create"
        /\ cpIngests' = Append(cpIngests, [id |-> cpNextId, label |-> cpPayload.label,
                                           streamUrl |-> cpPayload.streamUrl])
        /\ cpNextId' = cpNextId + 1
        /\ cloudStatus' = Status("success", "Ingest created")
        /\ \E withId \in BOOLEAN :
             \* newId = res?.id || res.ingests[0]?.id || null; if (newId) setProfiles(...)
             profiles' = IF withId /\ Truthy(cpNextId)
                         THEN RememberIngest(profiles, cpNextId, cpPayload.streamUrl)
                         ELSE profiles
  /\ configSteps' = doneSteps(configSteps)
  /\ pc' = "Done"
  /\ UNCHANGED <<err, tellyoStatus, calls, tellyoPayload, cpPayload>>
  /\ UNCHANGED <<tellyoChannels, tellyoNextId, cpFilters>>
  /\ UNCHANGED <<settingsVars, localVars, writeVars, devVars, blocked, run, firstRun, pollVars, moreVars>>

\* ------------------------------------------- confirmation poller and toggleOut
\* parseOutputs of a shadows answer, as output_id -> enabled
\* demoOutputsShadow(): output 1 enabled, output 2 disabled
DemoOuts == (1 :> TRUE) @@ (2 :> FALSE)

\* API.deviceShadows followed by parseOutputs: the device's outputs, or the demo
\* list when the request failed
fetchOuts == {devEnabled, DemoOuts}

\* the answers that yield a list: TRUE the device's, FALSE the one of the .catch
Answers(list) == {b \in BOOLEAN : list = (IF b THEN devEnabled ELSE DemoOuts)}

\* check of toggleOut: list.find(x => x.output_id === id), and enabled as requested
check(list, id, want) == id \in DOMAIN list /\ list[id] = want

NoResult == [ok |-> FALSE, outs |-> <<>>, returned |-> FALSE]

\* toggleOut up to the await of postOutputs (lines 668-672); `it` is a row of
\* `mapped`: an output of the displayed list with its enabled flag
toggleOut ==
  /\ tpc \in {"Idle", "End"}
  /\ \E id \in DOMAIN outs :
       IF safeMode
       THEN /\ blocked' = TRUE
            /\ UNCHANGED pollVars
       ELSE IF ~Truthy(id)
       THEN /\ UNCHANGED pollVars
            /\ blocked' = blocked
       ELSE /\ toggleId' = id
            /\ toggleWant' = ~outs[id]
            /\ opStatus' = "busy"
            /\ toggleCalls' = <<"postOutputs">>
            /\ delayIdx' = 1
            /\ waits' = <<>>
            /\ fetches' = 0
            /\ checks' = <<>>
            /\ lastOuts' = <<>>
            /\ pollRes' = NoResult
            /\ deviceConfirmed' = FALSE
            /\ tpc' = "Post"
            /\ blocked' = blocked
            /\ UNCHANGED <<outs, terr, devEnabled, devToggle>>
  /\ UNCHANGED <<settingsVars, outcomeVars, localVars, writeVars, devVars, regVars,
                 profiles, run, firstRun, moreVars>>

\* postOutputs answered: the poller starts (first sleep), or the catch of toggleOut
postOutputs ==
  /\ tpc = "Post"
  /\ \/ /\ devToggle' = <<toggleId, toggleWant>>
        /\ tpc' = "Sleep"
        /\ UNCHANGED <<opStatus, terr>>
     \/ /\ opStatus' = "err"
        /\ terr' = "503 Service Unavailable"
        /\ tpc' = "End"
        /\ devToggle' = devToggle
  /\ UNCHANGED <<toggleId, toggleWant, delayIdx, waits, fetches, checks, lastOuts, pollRes,
                 outs, devEnabled, toggleCalls, deviceConfirmed>>
  /\ UNCHANGED <<cfgVars, moreVars>>

\* the device carries out the output update it was sent
DeviceApplyToggle ==
  /\ devToggle # <<>>
  /\ devEnabled' = IF devToggle[1] \in DOMAIN devEnabled
                   THEN [devEnabled EXCEPT ![devToggle[1]] = devToggle[2]]
                   ELSE devEnabled
  /\ devToggle' = <<>>
  /\ UNCHANGED <<tpc, toggleId, toggleWant, delayIdx, waits, fetches, checks, lastOuts,
                 pollRes, outs, opStatus, terr, toggleCalls, deviceConfirmed>>
  /\ UNCHANGED <<cfgVars, moreVars>>

\* end of toggleOut once the poller returned res (lines 674-675)
ToggleEnd(res) ==
  /\ pollRes' = res
  /\ outs' = IF res.ok THEN res.outs ELSE outs
  /\ opStatus' = IF res.ok THEN "ok" ELSE "err"
  /\ terr' = IF res.ok THEN "" ELSE (IF terr # "" THEN terr ELSE "Output  did not confirm.")
  /\ tpc' = "End"

\* confirmOutputsState: await sleep(delay) over, deviceShadows issued
confirmSleep ==
  /\ tpc = "Sleep"
  /\ waits' = Append(waits, OUTPUT_CONFIRM_DELAYS[delayIdx])
  /\ toggleCalls' = Append(toggleCalls, "deviceShadows")
  /\ tpc' = "Fetch"
  /\ UNCHANGED <<toggleId, toggleWant, delayIdx, fetches, checks, lastOuts, pollRes, outs,
                 opStatus, terr, devEnabled, devToggle, deviceConfirmed>>
  /\ UNCHANGED <<cfgVars, moreVars>>

\* a loop that does not return when check holds
AfterFetchNoReturn(ok, idx) ==
  IF idx < Len(OUTPUT_CONFIRM_DELAYS) THEN "sleep" ELSE "final"

\* a loop that returns after the last delay without the final fetch
AfterFetchNoFinal(ok, idx) ==
  IF ok THEN "return"
  ELSE IF idx < Len(OUTPUT_CONFIRM_DELAYS) THEN "sleep"
  ELSE "return"

\* the body of the for loop after a fetch: return when check holds, else the next
\* delay, and past the last delay the final fetch
AfterFetch(ok, idx) ==
  IF ok THEN "return"
  ELSE IF idx < Len(OUTPUT_CONFIRM_DELAYS) THEN "sleep"
  ELSE "final"

\* confirmOutputsState: a fetch of the loop answered
confirmFetch ==
  /\ tpc = "Fetch"
  /\ fetches' = fetches + 1
  /\ \E list \in fetchOuts : \E fromDevice \in Answers(list) :
       LET ok == check(list, toggleId, toggleWant)
           step == AfterFetch(ok, delayIdx)
       IN /\ checks' = Append(checks, ok)
          /\ deviceConfirmed' = (deviceConfirmed \/ (fromDevice /\ ok))
          /\ lastOuts' = list
          /\ IF step = "return"
             THEN /\ ToggleEnd([ok |-> TRUE, outs |-> list, returned |-> TRUE])
                  /\ UNCHANGED <<delayIdx, toggleCalls>>
             ELSE IF step = "sleep"
             THEN /\ delayIdx' = delayIdx + 1
                  /\ tpc' = "Sleep"
                  /\ UNCHANGED <<pollRes, outs, opStatus, terr, toggleCalls>>
             ELSE /\ toggleCalls' = Append(toggleCalls, "deviceShadows")
                  /\ tpc' = "Final"
                  /\ UNCHANGED <<delayIdx, pollRes, outs, opStatus, terr>>
  /\ UNCHANGED <<toggleId, toggleWant, waits, devEnabled, devToggle>>
  /\ UNCHANGED <<cfgVars, moreVars>>

\* confirmOutputsState: the final fetch answered; ok is whatever check yields
confirmFinal ==
  /\ tpc = "Final"
  /\ fetches' = fetches + 1
  /\ \E list \in fetchOuts : \E fromDevice \in Answers(list) :
       /\ checks' = Append(checks, check(list, toggleId, toggleWant))
       /\ deviceConfirmed' = (deviceConfirmed \/ (fromDevice /\ check(list, toggleId, toggleWant)))
       /\ lastOuts' = list
       /\ ToggleEnd([ok |-> check(list, toggleId, toggleWant), outs |-> list,
                     returned |-> TRUE])
  /\ UNCHANGED <<toggleId, toggleWant, delayIdx, waits, devEnabled, devToggle, toggleCalls>>
  /\ UNCHANGED <<cfgVars, moreVars>>

\* -------------------------------------------------------------------- Init
PortRange == PortLast - PortFirst + 1

Intent(t) == [target |-> t, videonId |-> Undefined, tempPort |-> Undefined]

\* the output lists an operator builds by hand
ShortOutputs ==
  UNION {{[i \in 1..n |-> Intent(f[i])] : f \in [1..n -> Targets]} : n \in 0..MaxOutputs}

\* a list of n platform intents, the two platforms alternating
LongOutputs(n) ==
  [i \in 1..n |-> Intent(IF i % 2 = 1 THEN TellyoTarget ELSE CloudportTarget)]

Entity(id, label) == [id |-> id, label |-> label, streamUrl |-> NoUrl]

\* registry contents met by a run: nothing, the profile's label, another label, both
RegistryStates ==
  { <<>>, <<Entity(1, "studio-a")>>, <<Entity(2, "Other")>>,
    <<Entity(2, "Other"), Entity(1, "studio-a")>> }

OtherEncoder == [id |-> 1, type |-> "video", name |-> "Other_video"]
OldVideo == [id |-> 2, type |-> "video", name |-> videoName]
OldAudio == [id |-> 3, type |-> "audio", name |-> audioName]
ForeignOutput == [id |-> 5, type |-> "srt", port |-> PortFirst, enable |-> TRUE,
                  call_mode |-> "LISTENER", video |-> 1, audio |-> 1]

\* a device that never created an entry (its id counter at 0 or at DeviceIdBase)
FreshDevices ==
  {[encoders |-> <<>>, outputs |-> <<>>, version |-> 0, nextId |-> n] : n \in {0, DeviceIdBase}}

\* a device that other profiles or earlier runs have configured
UsedDevices ==
  {[encoders |-> e, outputs |-> o, version |-> 3, nextId |-> DeviceIdBase] :
     e \in {<<OtherEncoder>>, <<OldVideo, OldAudio>>, <<OtherEncoder, OldVideo, OldAudio>>},
     o \in {<<>>, <<ForeignOutput>>}}

PlainDevice == [encoders |-> <<>>, outputs |-> <<>>, version |-> 0, nextId |-> DeviceIdBase]

\* settings and profile fields the downstream blocks validate:
\* <<Tellyo settings present, Cloudport settings present, Tellyo profile name>>
SettingStates ==
  { <<TRUE, TRUE, "main">>, <<FALSE, TRUE, "main">>, <<TRUE, FALSE, "main">>,
    <<TRUE, TRUE, "">> }

\* one run against every device state and every device fault, the registries empty
DeviceScenarios ==
  [safeMode : {FALSE}, bypass : BOOLEAN, manualPort : {Undefined, ManualPortValue},
   settings : {<<TRUE, TRUE, "main">>}, outputs : ShortOutputs,
   dev : FreshDevices \cup UsedDevices, shape : {"array", "map"}, reliable : {FALSE},
   rerun : {FALSE}, tellyo : {<<>>}, cp : {<<>>}, cpFilters : {TRUE}]

\* two runs against every registry content and setting, the device reliable
DownstreamScenarios ==
  [safeMode : {FALSE}, bypass : {FALSE}, manualPort : {Undefined},
   settings : SettingStates, outputs : ShortOutputs,
   dev : {PlainDevice}, shape : {"array"}, reliable : {TRUE},
   rerun : {TRUE}, tellyo : RegistryStates, cp : RegistryStates, cpFilters : BOOLEAN]

\* profiles that fill the port range and exceed it by one
LongScenarios ==
  [safeMode : {FALSE}, bypass : BOOLEAN, manualPort : {Undefined},
   settings : {<<TRUE, TRUE, "main">>},
   outputs : {LongOutputs(PortRange), LongOutputs(PortRange + 1)},
   dev : {PlainDevice}, shape : {"array"}, reliable : {FALSE},
   rerun : {FALSE}, tellyo : {<<>>}, cp : {<<>>}, cpFilters : {TRUE}]

SafeScenarios ==
  [safeMode : {TRUE}, bypass : {FALSE}, manualPort : {Undefined},
   settings : {<<TRUE, TRUE, "main">>}, outputs : ShortOutputs,
   dev : {PlainDevice}, shape : {"array"}, reliable : {TRUE},
   rerun : {FALSE}, tellyo : {<<>>}, cp : {<<>>}, cpFilters : {TRUE}]

Scenarios == DeviceScenarios \cup DownstreamScenarios \cup LongScenarios \cup SafeScenarios

\* the URL a profile remembers: setProfiles stores the id and the stream URL of the
\* run together (lines 581, 646, 651), so a profile that remembers an id remembers the URL
RememberedUrl(id) == IF Truthy(id) THEN StreamUrl(deviceIp, PortFirst) ELSE NoUrl

\* the Detail view open on a device, a profile selected that remembers the channel
\* and the ingest of earlier runs (or none), nothing started
InitProfiled(sc, channelId, ingestId) ==
  /\ safeMode = sc.safeMode
  /\ bypassVideonError = sc.bypass
  /\ manualPort = sc.manualPort
  /\ tellyoSettingsOk = sc.settings[1]
  /\ cloudportSettingsOk = sc.settings[2]
  /\ devReliable = sc.reliable
  /\ rerun = sc.rerun
  /\ profiles = [outputs |-> sc.outputs,
                 tellyo |-> [channelName |-> "", profile |-> sc.settings[3],
                             lastChannelId |-> channelId,
                             lastStreamUrl |-> RememberedUrl(channelId)],
                 cloudport |-> [ingestLabel |-> "", lastIngestId |-> ingestId,
                                lastStreamUrl |-> RememberedUrl(ingestId)]]
  /\ cur = profiles
  /\ configSteps = <<>>
  /\ tellyoStatus = Status("idle", "")
  /\ cloudStatus = Status("idle", "")
  /\ err = <<>>
  /\ blocked = FALSE
  /\ pc = "Idle"
  /\ run = "none"
  /\ firstRun = [tellyo |-> "idle", cloud |-> "idle", channels |-> 0, ingests |-> 0]
  /\ newOutputs = <<>>
  /\ videonSuccess = FALSE
  /\ encVersion = Undefined /\ outVersion = Undefined
  /\ preVideoIds = {} /\ preAudioIds = {}
  /\ vidId = Undefined /\ audId = Undefined
  /\ portMap = <<>>
  /\ thrown = ""
  /\ calls = <<>>
  /\ encWrite = NoCommand /\ outWrite = NoCommand
  /\ shRes = ReadDemo /\ shRes2 = ReadDemo /\ finalShRes = ReadDemo
  /\ failed = {}
  /\ tellyoPayload = NoPayload /\ cpPayload = NoPayload
  /\ devInputs = <<[id |-> 1]>>
  /\ devEncoders = sc.dev.encoders
  /\ devOutputs = sc.dev.outputs
  /\ devVersion = [Encoders |-> sc.dev.version, Outputs |-> sc.dev.version]
  /\ devNextId = sc.dev.nextId
  /\ devShape = sc.shape
  /\ devPending = [Encoders |-> NoCommand, Outputs |-> NoCommand]
  /\ tellyoChannels = sc.tellyo
  /\ tellyoNextId = 3
  /\ cpIngests = sc.cp
  /\ cpNextId = 3
  /\ cpFilters = sc.cpFilters

\* the same with a profile that was never configured
InitConfigure(sc) == InitProfiled(sc, Undefined, Undefined)

\* the displayed output list as the last poll left it, no toggle started
InitPoll(shown, dev) ==
  /\ tpc = "Idle"
  /\ toggleId = Undefined
  /\ toggleWant = FALSE
  /\ delayIdx = 1
  /\ waits = <<>>
  /\ fetches = 0
  /\ checks = <<>>
  /\ lastOuts = <<>>
  /\ pollRes = NoResult
  /\ outs = shown
  /\ opStatus = ""
  /\ terr = ""
  /\ devEnabled = dev
  /\ devToggle = <<>>
  /\ toggleCalls = <<>>
  /\ deviceConfirmed = FALSE

\* confirmData === null
NoDialog == [kind |-> "none", id |-> Undefined, label |-> ""]

\* no tellyoListChannels call made yet
NoInfo == [token |-> "", baseV2 |-> "", orgId |-> "", version |-> ""]

\* no command, rename or feed toggle requested yet
InitCmd ==
  /\ cpc = "Idle" /\ cmdCalls = <<>> /\ deviceName = "cam" /\ alwaysOn = FALSE

\* no channel call made yet
NoCall == [op |-> "", version |-> "", orgId |-> "", channelId |-> ""]

InitChan ==
  /\ kpc = "Idle" /\ chanCall = NoCall /\ chanReqs = <<>> /\ nChan = 0

\* getSrtUrl not called
NoSrtCall == [videonIp |-> "", existingChannels |-> <<>>, currentChannelId |-> Undefined]

InitSrt == srtIn = NoSrtCall /\ srtOut = <<>>

\* const initialSettings
initialSettings ==
  [jwt |-> "", orgGuid |-> "", base |-> "", bearer |-> "", safeMode |-> FALSE,
   bypassVideonError |-> FALSE, rememberSecrets |-> TRUE, pollRate |-> 50000,
   accent |-> "#f97316",
   tellyo |-> [apiEndpoint |-> "", apiVersion |-> "v2", organizationId |-> "", token |-> ""],
   cloudport |-> [release |-> "CP_3.31.x+", baseHost |-> "", userAuthToken |-> ""]]

\* the keys of local storage the settings effects read or write
StorageKeys ==
  {"lec.remember", "lec.jwt", "lec.cfgBearer", "lec.bearer", "lec.org", "lec.orgGuid",
   "lec.base", "lec.accent", "lec.safeMode", "lec.bypassVideonError", "lec.pollRate",
   "lec.tellyo", "lec.cloudport"}

\* a browser that never ran the application: no key has an item (<<>>; <<v>> is item v);
\* the App is constructed and its mount effects are due
InitStore ==
  /\ settings = initialSettings
  /\ localStorage = [k \in StorageKeys |-> <<>>]
  /\ sessionStorage = <<>>
  /\ spc = "Mount" /\ nSaves = 0 /\ persisted = initialSettings

\* the polling effect of the first render is due: let t, busy = false, alive = true
InitLoad ==
  /\ epc = "Due" /\ busy = FALSE /\ alive = TRUE /\ timer = FALSE
  /\ loads = <<>> /\ rows = "none" /\ ticks = 0
  /\ started = 0 /\ refused = 0 /\ loadsFailed = 0

InitApp ==
  /\ InitCmd
  /\ InitChan
  /\ InitSrt
  /\ InitStore
  /\ InitLoad

\* no restart and no deletion requested yet
InitCore ==
  /\ rpc = "Idle" /\ op = "" /\ rerr = ""
  /\ targets = <<>> /\ version = Undefined /\ version2 = Undefined
  /\ rReads = <<>> /\ rWrites = <<>> /\ rPending = NoCommand
  /\ confirmData = NoDialog /\ delId = FALSE /\ delCalls = <<>>
  /\ dpc = [tellyo |-> "Idle", cloudport |-> "Idle"]
  /\ profileListed = TRUE /\ confirms = {} /\ cancels = {} /\ click = "none"
  /\ tellyoOrgIdCache = {} /\ lpc = "Idle" /\ info = NoInfo /\ orgNumeric = Undefined
  /\ reqs = <<>> /\ listed = "" /\ resolvedBy = {} /\ nCalls = 0

InitMore ==
  /\ InitApp
  /\ InitCore

Init ==
  /\ \E sc \in Scenarios : InitConfigure(sc)
  /\ InitPoll(DemoOuts, DemoOuts)
  /\ InitMore

Next ==
  \/ handleConfigure
  \/ FetchState
  \/ WriteEncoders
  \/ AwaitEncoders
  \/ VerifyEncoders
  \/ WriteOutputs
  \/ AwaitOutputs
  \/ VerifyOutputs
  \/ TellyoList
  \/ TellyoUpsert
  \/ CloudportSleep
  \/ CloudportFetch
  \/ CloudportUpsert
  \/ DeviceApplyEncoders
  \/ DeviceApplyOutputs

Spec == Init /\ [][Next]_vars

\* -------------------------------------------------- the poller on its own
PlainScenario ==
  [safeMode |-> FALSE, bypass |-> FALSE, manualPort |-> Undefined,
   settings |-> <<TRUE, TRUE, "main">>, outputs |-> <<>>,
   dev |-> PlainDevice, shape |-> "array", reliable |-> TRUE, rerun |-> FALSE,
   tellyo |-> <<>>, cp |-> <<>>, cpFilters |-> TRUE]

\* the outputs a device reports: ids 1 and 2, or 2 and 3, each enabled or not
DeviceOuts == [{1, 2} -> BOOLEAN] \cup [{2, 3} -> BOOLEAN]

InitToggle ==
  /\ InitConfigure(PlainScenario)
  /\ \E dev \in DeviceOuts : \E shown \in {dev, DemoOuts} : InitPoll(shown, dev)
  /\ InitMore

NextToggle ==
  \/ toggleOut
  \/ postOutputs
  \/ confirmSleep
  \/ confirmFetch
  \/ confirmFinal
  \/ DeviceApplyToggle

SpecToggle == InitToggle /\ [][NextToggle]_vars

\* ------------------------------------- a configure run and toggles side by side
\* one profile with both platforms, the device and the registries failing or not
WriteScenarios ==
  [safeMode : {FALSE}, bypass : {FALSE}, manualPort : {Undefined},
   settings : {<<TRUE, TRUE, "main">>},
   outputs : {<<Intent(TellyoTarget), Intent(CloudportTarget)>>},
   dev : {PlainDevice}, shape : {"array"}, reliable : {FALSE},
   rerun : {FALSE}, tellyo : {<<>>}, cp : {<<>>}, cpFilters : {TRUE}]

InitWrites ==
  /\ \E sc \in WriteScenarios : InitConfigure(sc)
  /\ InitPoll(DemoOuts, DemoOuts)
  /\ InitMore

NextWrites ==
  \/ Next
  \/ NextToggle

SpecWrites == InitWrites /\ [][NextWrites]_vars

\* ---------------------------------------------------------------- deletions
\* Most deletion requests of one session.
MaxDelCalls == 3

\* everything a deletion leaves alone
delRest == <<settingsVars, localVars, writeVars, devVars, err, configSteps, pc, calls,
             tellyoPayload, cpPayload, tellyoNextId, cpNextId, cpFilters, run, firstRun,
             pollVars, restartVars, listVars, appVars>>

\* a request to a registry with the id or the label it names
DelCall(name, id, label) == [call |-> name, id |-> id, label |-> label]

\* the latest request of a name
LastCall(name) ==
  delCalls[CHOOSE i \in 1..Len(delCalls) :
             /\ delCalls[i].call = name
             /\ \A j \in (i + 1)..Len(delCalls) : delCalls[j].call # name]

\* confirmData.action up to its first await: the status goes to pending and the
\* first request is issued with what the closure captured
StartAction(d) ==
  IF d.kind = "tellyo"
  THEN /\ tellyoStatus' = Status("pending", "Deleting channel ...")
       /\ delCalls' = Append(delCalls, DelCall("tellyoDeleteChannel", d.id, ""))
       /\ dpc' = [dpc EXCEPT !.tellyo = "Delete"]
       /\ cloudStatus' = cloudStatus
  ELSE /\ cloudStatus' = Status("pending", "Deleting ingest ...")
       /\ delCalls' = Append(delCalls, DelCall("cloudportFetchByLabel", d.id, d.label))
       /\ dpc' = [dpc EXCEPT !.cloudport = "Fetch"]
       /\ tellyoStatus' = tellyoStatus

\* a delete handler that runs the action at once instead of asking
RunAtOnce(d) ==
  /\ confirmData' = confirmData
  /\ StartAction(d)

\* setConfirmData({ title, msg, action }): the dialog opens, nothing else happens
Ask(d) ==
  /\ confirmData' = d
  /\ UNCHANGED <<tellyoStatus, cloudStatus, delCalls, dpc>>

\* deleteTellyoChannel (lines 679-700)
deleteTellyoChannel ==
  /\ dpc.tellyo = "Idle" /\ Len(delCalls) < MaxDelCalls
  /\ IF ~Truthy(profiles.tellyo.lastChannelId)
     THEN UNCHANGED <<blocked, confirmData, tellyoStatus, cloudStatus, delCalls, dpc>>
     ELSE IF safeMode
     THEN /\ blocked' = TRUE
          /\ UNCHANGED <<confirmData, tellyoStatus, cloudStatus, delCalls, dpc>>
     ELSE /\ Ask([kind |-> "tellyo", id |-> profiles.tellyo.lastChannelId, label |-> ""])
          /\ blocked' = blocked
  /\ UNCHANGED <<delId, profileListed, confirms, cancels, click, profiles, tellyoChannels, cpIngests>>
  /\ UNCHANGED delRest

\* deleteCloudportIngest (lines 761-788)
deleteCloudportIngest ==
  /\ dpc.cloudport = "Idle" /\ Len(delCalls) < MaxDelCalls
  /\ IF safeMode
     THEN /\ blocked' = TRUE
          /\ UNCHANGED <<confirmData, tellyoStatus, cloudStatus, delCalls, dpc>>
     ELSE /\ Ask([kind |-> "cloudport", id |-> profiles.cloudport.lastIngestId,
                  label |-> IngestLabelOf(profiles)])
          /\ blocked' = blocked
  /\ UNCHANGED <<delId, profileListed, confirms, cancels, click, profiles, tellyoChannels, cpIngests>>
  /\ UNCHANGED delRest

\* ConfirmModal of Detail, the operator confirming:
\* onConfirm={() => { confirmData?.action(); setConfirmData(null); }}
ModalConfirm ==
  /\ confirmData # NoDialog
  /\ dpc[confirmData.kind] = "Idle"
  /\ StartAction(confirmData)
  /\ confirmData' = NoDialog
  /\ confirms' = confirms \cup {confirmData.kind}
  /\ cancels' = cancels /\ click' = "confirm"
  /\ UNCHANGED <<delId, profileListed, profiles, tellyoChannels, cpIngests, blocked>>
  /\ UNCHANGED delRest

\* ConfirmModal of Detail, the operator cancelling: onClose={() => setConfirmData(null)}
ModalClose ==
  /\ confirmData # NoDialog
  /\ confirmData' = NoDialog
  /\ cancels' = cancels \cup {confirmData.kind} /\ click' = "cancel"
  /\ UNCHANGED <<delId, dpc, delCalls, profileListed, confirms, tellyoStatus, cloudStatus,
                 profiles, tellyoChannels, cpIngests, blocked>>
  /\ UNCHANGED delRest

\* an entity list without the entity of an id
Without(entities, id) == SelectSeq(entities, LAMBDA x : x.id # id)

\* tellyoDeleteChannel answered: the profile forgets the channel, or the catch
TellyoDeleted ==
  /\ dpc.tellyo = "Delete"
  /\ \/ /\ HasId(tellyoChannels, LastCall("tellyoDeleteChannel").id)
        /\ tellyoChannels' = Without(tellyoChannels, LastCall("tellyoDeleteChannel").id)
        /\ profiles' = [profiles EXCEPT !.tellyo.lastChannelId = Undefined,
                                        !.tellyo.lastStreamUrl = NoUrl]
        /\ tellyoStatus' = Status("idle", "Channel deleted")
     \/ /\ tellyoStatus' = Status("error", "404 Not Found")
        /\ UNCHANGED <<tellyoChannels, profiles>>
  /\ dpc' = [dpc EXCEPT !.tellyo = "Idle"]
  /\ UNCHANGED <<confirmData, delId, delCalls, profileListed, confirms, cancels, click, cloudStatus,
                 cpIngests, blocked>>
  /\ UNCHANGED delRest

\* cloudportFetchByLabel answered: ingestId = ingest?.id || ingest?.ingest_id ||
\* cur.cloudport?.lastIngestId, then the DELETE request, or the catch
CloudportFetched ==
  /\ dpc.cloudport = "Fetch"
  /\ LET asked == LastCall("cloudportFetchByLabel")
         ingests == CpListing(asked.label)
         m == cloudportFetchByLabel(ingests, asked.label)
         ingestId == IF m # 0 /\ Truthy(ingests[m].id) THEN ingests[m].id ELSE asked.id
     IN \/ /\ Truthy(ingestId)
           /\ delCalls' = Append(delCalls, DelCall("cloudportDelete", ingestId, ""))
           /\ dpc' = [dpc EXCEPT !.cloudport = "Delete"]
           /\ cloudStatus' = cloudStatus
        \/ /\ ~Truthy(ingestId)
           /\ cloudStatus' = Status("error", "Ingest point not found.")
           /\ dpc' = [dpc EXCEPT !.cloudport = "Idle"]
           /\ delCalls' = delCalls
        \/ /\ cloudStatus' = Status("error", "503 Service Unavailable")
           /\ dpc' = [dpc EXCEPT !.cloudport = "Idle"]
           /\ delCalls' = delCalls
  /\ UNCHANGED <<confirmData, delId, profileListed, confirms, cancels, click, tellyoStatus, profiles,
                 tellyoChannels, cpIngests, blocked>>
  /\ UNCHANGED delRest

\* cloudportDelete answered: the profile forgets the ingest, or the catch
CloudportDeleted ==
  /\ dpc.cloudport = "Delete"
  /\ \/ /\ HasId(cpIngests, LastCall("cloudportDelete").id)
        /\ cpIngests' = Without(cpIngests, LastCall("cloudportDelete").id)
        /\ profiles' = [profiles EXCEPT !.cloudport.lastIngestId = Undefined]
        /\ cloudStatus' = Status("idle", "Ingest deleted")
     \/ /\ cloudStatus' = Status("error", "404 Not Found")
        /\ UNCHANGED <<cpIngests, profiles>>
  /\ dpc' = [dpc EXCEPT !.cloudport = "Idle"]
  /\ UNCHANGED <<confirmData, delId, delCalls, profileListed, confirms, cancels, click, tellyoStatus,
                 tellyoChannels, blocked>>
  /\ UNCHANGED delRest

\* InputsPage.remove: the profile's id becomes delId
remove ==
  /\ profileListed /\ ~delId
  /\ delId' = TRUE
  /\ UNCHANGED <<confirmData, dpc, delCalls, profileListed, confirms, cancels, click, tellyoStatus,
                 cloudStatus, profiles, tellyoChannels, cpIngests, blocked>>
  /\ UNCHANGED delRest

\* ConfirmModal of InputsPage, the operator confirming: confirmRemove
confirmRemove ==
  /\ delId
  /\ profileListed' = FALSE
  /\ delId' = FALSE
  /\ confirms' = confirms \cup {"profile"}
  /\ cancels' = cancels /\ click' = "confirm"
  /\ UNCHANGED <<confirmData, dpc, delCalls, tellyoStatus, cloudStatus, profiles,
                 tellyoChannels, cpIngests, blocked>>
  /\ UNCHANGED delRest

\* ConfirmModal of InputsPage, the operator cancelling: onClose={() => setDelId(null)}
closeRemove ==
  /\ delId
  /\ delId' = FALSE
  /\ cancels' = cancels \cup {"profile"} /\ click' = "cancel"
  /\ UNCHANGED <<confirmData, dpc, delCalls, profileListed, confirms, tellyoStatus,
                 cloudStatus, profiles, tellyoChannels, cpIngests, blocked>>
  /\ UNCHANGED delRest

\* profiles that remember a channel and an ingest or not, registries that hold them
\* or not, Safe Mode on or off
DeleteScenarios ==
  [safeMode : BOOLEAN, bypass : {FALSE}, manualPort : {Undefined},
   settings : {<<TRUE, TRUE, "main">>}, outputs : {<<>>},
   dev : {PlainDevice}, shape : {"array"}, reliable : {TRUE}, rerun : {FALSE},
   tellyo : RegistryStates, cp : RegistryStates, cpFilters : BOOLEAN]

InitDelete ==
  /\ \E sc \in DeleteScenarios : \E ch \in {Undefined, 1} : \E ing \in {Undefined, 1} :
       InitProfiled(sc, ch, ing)
  /\ InitPoll(DemoOuts, DemoOuts)
  /\ InitMore

NextDelete ==
  \/ deleteTellyoChannel
  \/ deleteCloudportIngest
  \/ ModalConfirm
  \/ ModalClose
  \/ TellyoDeleted
  \/ CloudportFetched
  \/ CloudportDeleted
  \/ remove
  \/ confirmRemove
  \/ closeRemove

SpecDelete == InitDelete /\ [][NextDelete]_vars

\* ------------------------------------------------------------ handleRestart
\* Longest Outputs list of a device that is restarted.
MaxRestartOutputs == 2

\* every entry, whatever its enable flag
AllEntries(items) == items

\* reportedState.filter(o => o.config?.enable === true), after Object.values for a map
EnabledOf(items) == SelectSeq(items, LAMBDA o : o.enable)

\* targets of the first read (lines 164-174)
TargetsOf(sh) ==
  IF sh.state.shape = "array" THEN EnabledOf(sh.state.items)
  ELSE IF sh.state.shape = "map" THEN EnabledOf(ObjectValues(sh.state))
  ELSE <<>>

\* targets.map(t => ({ id: t.id || t.output_id, type: t.type, config: { enable } }))
FlipState(ts, enable) ==
  [i \in 1..Len(ts) |->
     [id |-> IF Truthy(ts[i].id) THEN ts[i].id ELSE Undefined, type |-> ts[i].type,
      enable |-> enable]]

\* version2 = outputsShadow2?.current_version ?? outputsShadow2?.version ?? (version + 1)
Version2Of(sh, v) == IF sh.present THEN sh.version ELSE v + 1

\* catch of handleRestart
RestartCatch(msg) ==
  /\ op' = "restart-err"
  /\ rerr' = msg
  /\ rpc' = "End"

\* handleRestart up to its first await (lines 152-158)
handleRestart ==
  /\ rpc = "Idle"
  /\ IF safeMode
     THEN /\ blocked' = TRUE
          /\ UNCHANGED restartVars
     ELSE /\ op' = "restart" /\ rerr' = ""
          /\ rpc' = "Read"
          /\ blocked' = blocked
          /\ UNCHANGED <<targets, version, version2, rReads, rWrites, rPending>>
  /\ UNCHANGED <<settingsVars, outcomeVars, localVars, writeVars, devVars, regVars, profiles,
                 run, firstRun, pollVars, deleteVars, listVars, appVars>>

\* the first deviceShadows answered: lines 158-200, up to the await of the STOP write
RestartRead ==
  /\ rpc = "Read"
  /\ \E r \in deviceShadows :
       /\ rReads' = Append(rReads, r.Outputs)
       /\ IF ~r.Outputs.present
          THEN /\ RestartCatch("Could not retrieve Outputs shadow")
               /\ UNCHANGED <<targets, version, rWrites>>
          ELSE /\ version' = r.Outputs.version
               /\ targets' = TargetsOf(r.Outputs)
               /\ IF Len(TargetsOf(r.Outputs)) = 0
                  THEN /\ op' = "restart-ok"
                       /\ rpc' = "End"
                       /\ UNCHANGED <<rerr, rWrites>>
                  ELSE /\ rWrites' = <<[state |-> FlipState(TargetsOf(r.Outputs), FALSE),
                                        target_version |-> r.Outputs.version]>>
                       /\ rpc' = "Stop"
                       /\ UNCHANGED <<op, rerr>>
  /\ UNCHANGED <<version2, rPending>>
  /\ UNCHANGED <<cfgVars, pollVars, deleteVars, listVars, appVars>>

\* updateShadow answered: acknowledged (the device takes the command when the
\* version is its current one), or thrown
RestartWrite(next) ==
  \/ /\ rPending' = IF rWrites[Len(rWrites)].target_version = devVersion.Outputs
                    THEN <<rWrites[Len(rWrites)].state>> ELSE rPending
     /\ rpc' = next
     /\ op' = IF next = "End" THEN "restart-ok" ELSE op
     /\ rerr' = rerr
  \/ /\ RestartCatch("503 Service Unavailable")
     /\ rPending' = rPending

\* the STOP write answered (line 200), then sleep(2000)
RestartStop ==
  /\ rpc = "Stop"
  /\ RestartWrite("Sleep")
  /\ UNCHANGED <<targets, version, version2, rReads, rWrites>>
  /\ UNCHANGED <<cfgVars, pollVars, deleteVars, listVars, appVars>>

\* sleep(2000) over: the await of the second deviceShadows (lines 203-212)
RestartSleep ==
  /\ rpc = "Sleep"
  /\ rpc' = "Reread"
  /\ UNCHANGED <<op, rerr, targets, version, version2, rReads, rWrites, rPending>>
  /\ UNCHANGED <<cfgVars, pollVars, deleteVars, listVars, appVars>>

\* the second deviceShadows answered: lines 212-234, up to the await of the START write
RestartReread ==
  /\ rpc = "Reread"
  /\ \E r \in deviceShadows :
       /\ rReads' = Append(rReads, r.Outputs)
       /\ version2' = Version2Of(r.Outputs, version)
       /\ rWrites' = Append(rWrites, [state |-> FlipState(targets, TRUE),
                                      target_version |-> Version2Of(r.Outputs, version)])
  /\ rpc' = "Start"
  /\ UNCHANGED <<op, rerr, targets, version, rPending>>
  /\ UNCHANGED <<cfgVars, pollVars, deleteVars, listVars, appVars>>

\* the START write answered (lines 234-237)
RestartStart ==
  /\ rpc = "Start"
  /\ RestartWrite("End")
  /\ UNCHANGED <<targets, version, version2, rReads, rWrites>>
  /\ UNCHANGED <<cfgVars, pollVars, deleteVars, listVars, appVars>>

\* the device carries out an accepted enable/disable command
DeviceApplyRestart ==
  /\ rPending # NoCommand
  /\ devOutputs' = [i \in 1..Len(devOutputs) |->
                      IF \E k \in 1..Len(rPending[1]) : rPending[1][k].id = devOutputs[i].id
                      THEN [devOutputs[i] EXCEPT !.enable = rPending[1][1].enable]
                      ELSE devOutputs[i]]
  /\ devVersion' = [devVersion EXCEPT !.Outputs = @ + 1]
  /\ rPending' = NoCommand
  /\ UNCHANGED <<devInputs, devEncoders, devNextId, devShape, devPending>>
  /\ UNCHANGED <<rpc, op, rerr, targets, version, version2, rReads, rWrites>>
  /\ UNCHANGED <<settingsVars, outcomeVars, localVars, writeVars, regVars, profiles, blocked,
                 run, firstRun, pollVars, deleteVars, listVars, appVars>>

\* an SRT output of the device
DeviceOutput(id, enable) ==
  [id |-> id, type |-> "srt", port |-> PortFirst + id, enable |-> enable,
   call_mode |-> "LISTENER", video |-> 1, audio |-> 1]

\* Outputs lists of a device: ids counted from 0 or from DeviceIdBase
RestartOutputs ==
  UNION {{[i \in 1..n |-> DeviceOutput(base + i - 1, f[i])] : f \in [1..n -> BOOLEAN]} :
           n \in 0..MaxRestartOutputs, base \in {0, DeviceIdBase}}

RestartScenarios ==
  [safeMode : BOOLEAN, bypass : {FALSE}, manualPort : {Undefined},
   settings : {<<TRUE, TRUE, "main">>}, outputs : {<<>>},
   dev : {[encoders |-> <<>>, outputs |-> o, version |-> v, nextId |-> DeviceIdBase] :
            o \in RestartOutputs, v \in {0, 3}},
   shape : {"array", "map"}, reliable : {FALSE}, rerun : {FALSE},
   tellyo : {<<>>}, cp : {<<>>}, cpFilters : {TRUE}]

InitRestart ==
  /\ \E sc \in RestartScenarios : InitConfigure(sc)
  /\ InitPoll(DemoOuts, DemoOuts)
  /\ InitMore

NextRestart ==
  \/ handleRestart
  \/ RestartRead
  \/ RestartStop
  \/ RestartSleep
  \/ RestartReread
  \/ RestartStart
  \/ DeviceApplyRestart

SpecRestart == InitRestart /\ [][NextRestart]_vars

\* ------------------------------------------------------------ Tellyo client
\* Most tellyoListChannels calls of one session.
MaxListCalls == 2

\* cacheKey = `${info.token}::${info.baseV2}::${info.orgId}`
cacheKey(i) == i.token \o "::" \o i.baseV2 \o "::" \o i.orgId

\* toNumericOrg: a string of digits is its number, anything else null
toNumericOrg(v) == IF v = "7" THEN 7 ELSE Undefined

\* the numeric id the organization of a name has at the Tellyo instance of a base
OrgIdAt(base, name) ==
  (IF base = "https://t/rest/open/v2" THEN 10 ELSE 20) + (IF name = "z" THEN 1 ELSE 2)

\* tellyoOrgIdCache.set(cacheKey, value)
CacheSet(key, value) == {e \in tellyoOrgIdCache : e[1] # key} \cup {<<key, value>>}

\* a request sent and not answered yet
Sent(rq, name) == Append(rq, [req |-> name, ans |-> "pending"])

\* the latest request answered
Answered(ans) == [reqs EXCEPT ![Len(reqs)].ans = ans]

\* tellyoListChannels once orgNumeric is known (lines 437-457): the v2 listing when
\* the dialect is not v1 and the id is numeric, else the v1 channel/get
AfterResolve(n, rq) ==
  /\ orgNumeric' = n
  /\ IF info'.version # "v1" /\ n # Undefined
     THEN /\ reqs' = Sent(rq, "v2 channels")
          /\ lpc' = "ListV2"
     ELSE /\ reqs' = Sent(rq, "v1 channel/get")
          /\ lpc' = "ListV1"

\* tellyoListChannels up to its first await (lines 428-436), resolveTellyoOrgId up
\* to its first await included (lines 213-241)
tellyoListChannels ==
  /\ lpc \in {"Idle", "Done"} /\ nCalls < MaxListCalls
  /\ nCalls' = nCalls + 1
  /\ listed' = ""
  /\ \E t \in {"x", "x::https://t/rest/open/v2::y"} :
     \E b \in {"https://t/rest/open/v2", "https://u/rest/open/v2"} :
     \E o \in {"z", "y::https://t/rest/open/v2::z", "7"} :
     \E v \in {"v1", "v2"} :
       LET i == [token |-> t, baseV2 |-> b, orgId |-> o, version |-> v]
           hit == {e \in tellyoOrgIdCache : e[1] = cacheKey(i)}
       IN /\ info' = i
          /\ IF toNumericOrg(o) # Undefined
             THEN AfterResolve(toNumericOrg(o), <<>>)
             ELSE IF hit # {}
             THEN AfterResolve((CHOOSE e \in hit : TRUE)[2], <<>>)
             ELSE /\ reqs' = Sent(<<>>, "v1 organization/get")
                  /\ lpc' = "OrgV1"
                  /\ orgNumeric' = Undefined
  /\ UNCHANGED <<tellyoOrgIdCache, resolvedBy>>
  /\ UNCHANGED <<cfgVars, pollVars, restartVars, deleteVars, appVars>>

\* resolveTellyoOrgId: POST baseV1/organization/get answered (lines 233-245): an
\* entry with a numeric id is cached and returned, anything else goes on to the
\* organizations listing
OrgV1Answered ==
  /\ lpc = "OrgV1"
  /\ \/ /\ tellyoOrgIdCache' = CacheSet(cacheKey(info), OrgIdAt(info.baseV2, info.orgId))
        /\ resolvedBy' = resolvedBy \cup {[token |-> info.token, baseV2 |-> info.baseV2,
                                           orgId |-> info.orgId,
                                           id |-> OrgIdAt(info.baseV2, info.orgId)]}
        /\ info' = info
        /\ AfterResolve(OrgIdAt(info.baseV2, info.orgId), Answered("id"))
     \/ /\ \E ans \in {"no id", "error"} : reqs' = Sent(Answered(ans), "v2 organizations")
        /\ lpc' = "OrgV2"
        /\ UNCHANGED <<tellyoOrgIdCache, resolvedBy, info, orgNumeric>>
  /\ UNCHANGED <<listed, nCalls>>
  /\ UNCHANGED <<cfgVars, pollVars, restartVars, deleteVars, appVars>>

\* resolveTellyoOrgId: GET baseV2/organizations answered (lines 248-263): the entry
\* matching the name is cached and returned, otherwise null is cached and returned
OrgV2Answered ==
  /\ lpc = "OrgV2"
  /\ info' = info
  /\ \/ /\ tellyoOrgIdCache' = CacheSet(cacheKey(info), OrgIdAt(info.baseV2, info.orgId))
        /\ resolvedBy' = resolvedBy \cup {[token |-> info.token, baseV2 |-> info.baseV2,
                                           orgId |-> info.orgId,
                                           id |-> OrgIdAt(info.baseV2, info.orgId)]}
        /\ AfterResolve(OrgIdAt(info.baseV2, info.orgId), Answered("id"))
     \/ /\ tellyoOrgIdCache' = CacheSet(cacheKey(info), Undefined)
        /\ resolvedBy' = resolvedBy
        /\ \E ans \in {"no match", "error"} : AfterResolve(Undefined, Answered(ans))
  /\ UNCHANGED <<listed, nCalls>>
  /\ UNCHANGED <<cfgVars, pollVars, restartVars, deleteVars, appVars>>

\* GET baseV2/organizations/<id>/channels answered (lines 439-451): a non-empty
\* list is returned; an empty list, and an error whose message holds 'method not
\* found', '404' or '405', go on to the v1 call; any other error is thrown
ListV2Answered ==
  /\ lpc = "ListV2"
  /\ \E ans \in {"channels", "empty", "404", "405", "method not found", "500"} :
       IF ans = "channels"
       THEN /\ reqs' = Answered(ans) /\ listed' = "v2" /\ lpc' = "Done"
       ELSE IF ans = "500"
       THEN /\ reqs' = Answered(ans) /\ listed' = "error" /\ lpc' = "Done"
       ELSE /\ reqs' = Sent(Answered(ans), "v1 channel/get")
            /\ lpc' = "ListV1"
            /\ listed' = listed
  /\ UNCHANGED <<tellyoOrgIdCache, info, orgNumeric, resolvedBy, nCalls>>
  /\ UNCHANGED <<cfgVars, pollVars, restartVars, deleteVars, appVars>>

\* POST baseV1/channel/get answered (lines 454-464): its list is returned, or its
\* error thrown
ListV1Answered ==
  /\ lpc = "ListV1"
  /\ \E ans \in {"channels", "empty", "500"} :
       /\ reqs' = Answered(ans)
       /\ listed' = IF ans = "500" THEN "error" ELSE "v1"
  /\ lpc' = "Done"
  /\ UNCHANGED <<tellyoOrgIdCache, info, orgNumeric, resolvedBy, nCalls>>
  /\ UNCHANGED <<cfgVars, pollVars, restartVars, deleteVars, appVars>>

InitTellyo ==
  /\ InitConfigure(PlainScenario)
  /\ InitPoll(DemoOuts, DemoOuts)
  /\ InitMore

NextTellyo ==
  \/ tellyoListChannels
  \/ OrgV1Answered
  \/ OrgV2Answered
  \/ ListV2Answered
  \/ ListV1Answered

SpecTellyo == InitTellyo /\ [][NextTellyo]_vars

\* -------------------------------------------------- registries with labels in another case
\* a registry that already holds the profile's entity under a label made by hand,
\* "Studio-A", next to the label handleConfigure asks for, "studio-a"
LabelRegistries ==
  { <<>>, <<Entity(1, "Studio-A")>>, <<Entity(1, "studio-a")>>,
    <<Entity(2, "Other"), Entity(1, "Studio-A")>>,
    <<Entity(2, "Studio-A"), Entity(1, "studio-a")>> }

LabelScenarios ==
  [safeMode : {FALSE}, bypass : {FALSE}, manualPort : {Undefined},
   settings : {<<TRUE, TRUE, "main">>},
   outputs : {<<Intent(TellyoTarget), Intent(CloudportTarget)>>},
   dev : {PlainDevice}, shape : {"array"}, reliable : {TRUE},
   rerun : {FALSE}, tellyo : LabelRegistries, cp : LabelRegistries, cpFilters : {FALSE}]

InitLabels ==
  /\ \E sc \in LabelScenarios : InitConfigure(sc)
  /\ InitPoll(DemoOuts, DemoOuts)
  /\ InitMore

SpecLabels == InitLabels /\ [][Next]_vars

\* -------------------------------------------------- two runs against a prompt device
\* the same profile configured twice in a row, every output list an operator builds,
\* the manual endpoint filled in or not, the device reporting arrays or maps
RunScenarios ==
  [safeMode : {FALSE}, bypass : {FALSE}, manualPort : {Undefined, ManualPortValue},
   settings : {<<TRUE, TRUE, "main">>}, outputs : ShortOutputs,
   dev : {PlainDevice}, shape : {"array", "map"}, reliable : {TRUE},
   rerun : {TRUE}, tellyo : {<<>>}, cp : {<<>>}, cpFilters : {TRUE}]

InitRuns ==
  /\ \E sc \in RunScenarios : InitConfigure(sc)
  /\ InitPoll(DemoOuts, DemoOuts)
  /\ InitMore

\* the third deviceShadows answered by a device that has applied the Outputs write
\* within the sleep(2000) of line 508 and reports the new entries
VerifyApplied ==
  /\ devPending.Outputs = NoCommand
  /\ VerifyOutputs

NextRuns ==
  \/ handleConfigure
  \/ FetchState
  \/ WriteEncoders
  \/ AwaitEncoders
  \/ VerifyEncoders
  \/ WriteOutputs
  \/ AwaitOutputs
  \/ VerifyApplied
  \/ TellyoList
  \/ TellyoUpsert
  \/ CloudportSleep
  \/ CloudportFetch
  \/ CloudportUpsert
  \/ DeviceApplyEncoders
  \/ DeviceApplyOutputs

SpecRuns == InitRuns /\ [][NextRuns]_vars

\* -------------------------------------------- doCmd, doRename, toggleCloudport
\* the requests one behaviour lets the three handlers issue
MaxCmdCalls == 2

\* everything the three handlers leave alone
cmdRest == <<settingsVars, localVars, writeVars, devVars, regVars, err, configSteps,
             tellyoStatus, pc, calls, tellyoPayload, cpPayload, profiles, run, firstRun,
             pollVars, deleteVars, listVars, rpc, targets, version, version2, rReads,
             rWrites, rPending, chanVars, srtVars, storeVars, loadVars>>

\* a handler that returns at its safe-mode guard: onWriteBlocked?.(); return
Blocked ==
  /\ blocked' = TRUE
  /\ UNCHANGED <<cloudStatus, op, rerr, cmdVars>>

\* a mutation: doCmd without its safe-mode guard
CmdUnguarded ==
  /\ cpc = "Idle" /\ Len(cmdCalls) < MaxCmdCalls
  /\ op' = "reboot" /\ rerr' = ""
  /\ cmdCalls' = Append(cmdCalls, "POST commands")
  /\ cpc' = "Cmd"
  /\ UNCHANGED <<blocked, cloudStatus, deviceName, alwaysOn>>
  /\ UNCHANGED cmdRest

\* doCmd('reboot', ...) up to the await of API.postCommand (lines 144-149)
doCmd ==
  /\ cpc = "Idle" /\ Len(cmdCalls) < MaxCmdCalls
  /\ IF safeMode
     THEN Blocked
     ELSE /\ op' = "reboot" /\ rerr' = ""
          /\ cmdCalls' = Append(cmdCalls, "POST commands")
          /\ cpc' = "Cmd"
          /\ UNCHANGED <<blocked, cloudStatus, deviceName, alwaysOn>>
  /\ UNCHANGED cmdRest

\* API.postCommand answered: setOp(label + '-ok'), or the catch; the timer is set
CmdAnswered ==
  /\ cpc = "Cmd"
  /\ \/ op' = "reboot-ok" /\ rerr' = rerr
     \/ op' = "reboot-err" /\ rerr' = "Command failed: 503 Service Unavailable"
  /\ cpc' = "CmdTimer"
  /\ UNCHANGED <<blocked, cloudStatus, cmdCalls, deviceName, alwaysOn>>
  /\ UNCHANGED cmdRest

\* finally { setTimeout(() => setOp(""), 2000) }: the timer fires
CmdTimer ==
  /\ cpc = "CmdTimer"
  /\ op' = ""
  /\ cpc' = "Idle"
  /\ UNCHANGED <<blocked, cloudStatus, rerr, cmdCalls, deviceName, alwaysOn>>
  /\ UNCHANGED cmdRest

\* doRename up to the await of API.renameDevice (lines 242-245); devName is the text
\* of the name field, trimmed
doRename ==
  /\ cpc = "Idle" /\ Len(cmdCalls) < MaxCmdCalls
  /\ \E devName \in {"", "cam 2"} :
       IF safeMode
       THEN Blocked
       ELSE IF devName = ""
       THEN UNCHANGED <<blocked, cloudStatus, op, rerr, cmdVars>>
       ELSE /\ cmdCalls' = Append(cmdCalls, "PATCH devices")
            /\ cpc' = "Rename"
            /\ UNCHANGED <<blocked, cloudStatus, op, rerr, deviceName, alwaysOn>>
  /\ UNCHANGED cmdRest

\* API.renameDevice answered: onRename(device.id, n), or the catch with setErr
RenameAnswered ==
  /\ cpc = "Rename"
  /\ \/ deviceName' = "cam 2" /\ rerr' = rerr
     \/ deviceName' = deviceName /\ rerr' = "403 Forbidden"
  /\ cpc' = "Idle"
  /\ UNCHANGED <<blocked, cloudStatus, op, cmdCalls, alwaysOn>>
  /\ UNCHANGED cmdRest

\* toggleCloudport up to the await of API.cloudportUpdate (lines 702-749)
toggleCloudport ==
  /\ cpc = "Idle" /\ Len(cmdCalls) < MaxCmdCalls
  /\ IF ~Truthy(profiles.cloudport.lastIngestId)
     THEN UNCHANGED <<blocked, cloudStatus, op, rerr, cmdVars>>
     ELSE IF safeMode
     THEN Blocked
     ELSE /\ cloudStatus' = Status("pending", " CLOUDPORT feed...")
          /\ cmdCalls' = Append(cmdCalls, "PUT ingest")
          /\ cpc' = "Feed"
          /\ UNCHANGED <<blocked, op, rerr, deviceName, alwaysOn>>
  /\ UNCHANGED cmdRest

\* API.cloudportUpdate answered: alwaysOn becomes nextState (lines 751-755), or the catch
CloudportToggled ==
  /\ cpc = "Feed"
  /\ \/ /\ alwaysOn' = ~alwaysOn
        /\ cloudStatus' = Status("success", IF alwaysOn THEN "Feed disabled" ELSE "Feed enabled")
     \/ /\ alwaysOn' = alwaysOn
        /\ cloudStatus' = Status("error", "503 Service Unavailable")
  /\ cpc' = "Idle"
  /\ UNCHANGED <<blocked, op, rerr, cmdCalls, deviceName>>
  /\ UNCHANGED cmdRest

\* the Detail view with safe mode on or off, a profile that remembers a channel and an
\* ingest or neither, and the handlers of its buttons up to their first request
SafeScenario(mode) == [PlainScenario EXCEPT !.safeMode = mode,
                                            !.outputs = <<Intent(TellyoTarget)>>]

InitSafe ==
  /\ \E mode \in BOOLEAN : \E id \in {Undefined, 1} :
       InitProfiled(SafeScenario(mode), id, id)
  /\ InitPoll(DemoOuts, DemoOuts)
  /\ InitMore

NextSafe ==
  \/ handleConfigure
  \/ handleRestart
  \/ toggleOut
  \/ deleteTellyoChannel
  \/ deleteCloudportIngest
  \/ doCmd
  \/ CmdAnswered
  \/ CmdTimer
  \/ doRename
  \/ RenameAnswered
  \/ toggleCloudport
  \/ CloudportToggled

SpecSafe == InitSafe /\ [][NextSafe]_vars

\* -------------------------------------------- Tellyo client: channel calls
\* the channel calls of one behaviour
MaxChanCalls == 2

\* what parseInt gives for a string that does not start with a digit
NaN == -2

\* tellyoChannelEndpoint's own toNumericOrg = (id) => parseInt(id, 10): the leading
\* digits of the string, NaN when there are none
parseIntOrg(id) ==
  CASE id = "7" -> 7
    [] id = "7up" -> 7
    [] OTHER -> NaN

\* the client's toNumericOrg for the organization ids of a channel call: digits only
toNumericOrgId(id) == IF id = "7" THEN 7 ELSE Undefined

\* what resolveTellyoOrgId may return for an organization id that is not numeric:
\* the id of the organization of that name, null when there is none or the lookup failed
ResolvedIds(id) == IF id = "z" THEN {11, Undefined} ELSE {Undefined}

\* isEdit = !!channelId && channelId !== '0' && channelId !== 'new'
isEdit(channelId) == channelId # "" /\ channelId # "0" /\ channelId # "new"

\* tellyoChannelEndpoint(info, channelId): { url, method }, the URL as its parts
tellyoChannelEndpoint(ver, org, orgIdNumeric, channelId) ==
  LET numeric == IF orgIdNumeric # Undefined THEN orgIdNumeric ELSE parseIntOrg(org)
  IN IF ver = "v1" \/ numeric = Undefined
     THEN [dialect |-> "v1", verb |-> IF isEdit(channelId) THEN "edit" ELSE "add",
           org |-> Undefined, id |-> "", method |-> "POST"]
     ELSE [dialect |-> "v2", verb |-> "channels", org |-> numeric,
           id |-> IF isEdit(channelId) THEN channelId ELSE "",
           method |-> IF isEdit(channelId) THEN "PUT" ELSE "POST"]

\* the organizationId of the body: effectiveId when useV1, absent otherwise
\* (useV1 = version === 'v1' || orgNumeric == null; effectiveId = orgNumeric ?? orgId)
BodyOrg(ver, org, num) ==
  IF ver = "v1" \/ num = Undefined
  THEN (IF num # Undefined THEN <<num>> ELSE <<org>>)
  ELSE <<>>

\* the request of a channel call once orgNumeric is known: tellyoChannelEndpoint throws
\* when there is no organization id; tellyoDeleteChannel sends DELETE without a body
ChannelRequest(c, num) ==
  LET e == tellyoChannelEndpoint(c.version, c.orgId, num, c.channelId)
  IN IF c.orgId = "" THEN [thrown |-> TRUE, call |-> c, orgNumeric |-> num]
     ELSE [thrown |-> FALSE, call |-> c, orgNumeric |-> num, url |-> e,
           method |-> IF c.op = "delete" THEN "DELETE" ELSE e.method,
           bodyOrg |-> IF c.op = "delete" THEN <<>>
                       ELSE BodyOrg(c.version, c.orgId, num)]

\* API.tellyoCreateChannel / tellyoUpdateChannel / tellyoDeleteChannel up to the first
\* await: the request itself when the organization id is numeric or missing, else the
\* await of resolveTellyoOrgId
tellyoChannelCall ==
  /\ kpc = "Idle" /\ nChan < MaxChanCalls
  /\ nChan' = nChan + 1
  /\ \E o \in {"create", "update", "delete"} :
     \E v \in {"v1", "v2"} :
     \E org \in {"7", "z", "q", "7up", ""} :
     \E ch \in {"5", "6"} :
       LET c == [op |-> o, version |-> v, orgId |-> org,
                 channelId |-> IF o = "create" THEN "" ELSE ch]
       IN /\ chanCall' = c
          /\ IF toNumericOrgId(org) # Undefined \/ org = ""
             THEN /\ chanReqs' = Append(chanReqs, ChannelRequest(c, toNumericOrgId(org)))
                  /\ kpc' = "Idle"
             ELSE /\ chanReqs' = chanReqs
                  /\ kpc' = "Resolve"
  /\ UNCHANGED <<cfgVars, pollVars, restartVars, deleteVars, listVars, cmdVars, srtVars,
                 storeVars, loadVars>>

\* resolveTellyoOrgId answered: the request with the id it returned
ChannelResolved ==
  /\ kpc = "Resolve"
  /\ \E n \in ResolvedIds(chanCall.orgId) :
       chanReqs' = Append(chanReqs, ChannelRequest(chanCall, n))
  /\ kpc' = "Idle"
  /\ UNCHANGED <<chanCall, nChan>>
  /\ UNCHANGED <<cfgVars, pollVars, restartVars, deleteVars, listVars, cmdVars, srtVars,
                 storeVars, loadVars>>

InitChannels ==
  /\ InitConfigure(PlainScenario)
  /\ InitPoll(DemoOuts, DemoOuts)
  /\ InitMore

NextChannels ==
  \/ tellyoChannelCall
  \/ ChannelResolved

SpecChannels == InitChannels /\ [][NextChannels]_vars

\* ------------------------------------------------- tellyoUtils: getSrtUrl
PORT_MIN == 10006
PORT_MAX == 10100

\* the channels of a drawn channel list
MaxChannels == 2

\* a channel without a stream URL
NoStream == [port |-> Undefined, tail |-> ""]

\* the stream URLs of the existing channels: srt://host:port, the same with a query
\* or a path after the port, and a URL without a port
SrtPorts == {PORT_MIN - 1, PORT_MIN, PORT_MIN + 1, PORT_MAX - 1, PORT_MAX, PORT_MAX + 1}
ChannelUrls ==
  {NoStream} \cup [port : SrtPorts, tail : {"", "?mode=caller"}]
             \cup {[port |-> Undefined, tail |-> "/live"]}

\* extractPort(url): the digits after a colon that end the string or precede / or ?
extractPort(url) == IF url = NoStream THEN Undefined ELSE url.port

\* the largest element of a non-empty set of numbers
MaxOf(S) == CHOOSE m \in S : \A x \in S : x <= m

\* getSrtUrl returned '' (no device IP)
EmptyUrl == [ip |-> "", port |-> Undefined]

\* getSrtUrl(videonIp, existingChannels, currentChannelId)
getSrtUrl(videonIp, existingChannels, currentChannelId) ==
  LET found == {i \in 1..Len(existingChannels) : existingChannels[i].id = currentChannelId}
      currentChannel == existingChannels[CHOOSE i \in found : \A j \in found : i <= j]
      existingPort == extractPort(currentChannel.streamUrl)
      usedPorts == {p \in {extractPort(existingChannels[i].streamUrl) :
                             i \in 1..Len(existingChannels)} :
                      p # Undefined /\ p >= PORT_MIN /\ p < PORT_MAX}
      nextPort == IF usedPorts # {} THEN MaxOf(usedPorts) + 1 ELSE PORT_MIN
  IN IF videonIp = "" THEN EmptyUrl
     ELSE IF Truthy(currentChannelId) /\ found # {} /\ currentChannel.streamUrl # NoStream
             /\ Truthy(existingPort)
     THEN [ip |-> videonIp, port |-> existingPort]
     ELSE IF nextPort > PORT_MAX THEN [ip |-> videonIp, port |-> PORT_MIN]
     ELSE [ip |-> videonIp, port |-> nextPort]

\* channel lists: every list of at most MaxChannels channels, ids 1, 2, .. in order
ChannelLists(n) ==
  UNION {{[i \in 1..k |-> [id |-> i, streamUrl |-> f[i]]] : f \in [1..k -> ChannelUrls]} :
           k \in 0..n}

\* one channel on every port of the range
FullRange == [i \in 1..(PORT_MAX - PORT_MIN + 1) |->
                [id |-> i, streamUrl |-> [port |-> PORT_MIN + i - 1, tail |-> ""]]]

\* the ports of the channels of a list
PortsOf(chs) == {extractPort(chs[i].streamUrl) : i \in 1..Len(chs)} \ {Undefined}

InitSrtUrl ==
  /\ InitConfigure(PlainScenario)
  /\ InitPoll(DemoOuts, DemoOuts)
  /\ InitCore /\ InitCmd /\ InitChan /\ InitStore /\ InitLoad
  /\ \E ip \in {"", "10.0.0.9"} :
     \E chs \in ChannelLists(MaxChannels) \cup {FullRange} :
     \E cid \in {Undefined, 1, 2, 9} :
       srtIn = [videonIp |-> ip, existingChannels |-> chs, currentChannelId |-> cid]
  /\ srtOut = <<>>

\* the call of getSrtUrl on the drawn arguments
getSrtUrlCall ==
  /\ srtOut = <<>> /\ srtIn # NoSrtCall
  /\ srtOut' = <<getSrtUrl(srtIn.videonIp, srtIn.existingChannels, srtIn.currentChannelId)>>
  /\ UNCHANGED <<srtIn, cfgVars, pollVars, restartVars, deleteVars, listVars, cmdVars,
                 chanVars, storeVars, loadVars>>

NextSrtUrl == getSrtUrlCall

SpecSrtUrl == InitSrtUrl /\ [][NextSrtUrl]_vars

\* ------------------------------------------------- App: settings storage
\* the saves of one behaviour
MaxSaves == 2

\* a || b on strings
OrElse(a, b) == IF a # "" THEN a ELSE b

\* localStorage.getItem(k) where null and '' behave alike
GetItem(ls, k) == IF ls[k] = <<>> THEN "" ELSE ls[k][1]

\* setItem stores the string of its value: a boolean, a poll rate
BoolString(b) == IF b THEN "true" ELSE "false"
NumberString(n) ==
  CASE n = 1000 -> "1000"
    [] n = 5000 -> "5000"
    [] n = 50000 -> "50000"
    [] OTHER -> "NaN"

\* Number(s): 0 for null and '', a number that is falsy under || for other text
StringNumber(str) ==
  CASE str = "1000" -> 1000
    [] str = "5000" -> 5000
    [] str = "50000" -> 50000
    [] OTHER -> 0

\* the persist effect on local storage: lec.remember, one key per remaining top-level
\* field, the two service objects without their tokens, then the secrets or their removal
PersistLocal(s, ls) ==
  LET plain == [ls EXCEPT
        !["lec.remember"] = <<IF s.rememberSecrets THEN "1" ELSE "0">>,
        !["lec.jwt"] = <<s.jwt>>,
        !["lec.orgGuid"] = <<s.orgGuid>>,
        !["lec.base"] = <<s.base>>,
        !["lec.bearer"] = <<s.bearer>>,
        !["lec.safeMode"] = <<BoolString(s.safeMode)>>,
        !["lec.bypassVideonError"] = <<BoolString(s.bypassVideonError)>>,
        !["lec.pollRate"] = <<NumberString(s.pollRate)>>,
        !["lec.accent"] = <<s.accent>>,
        !["lec.tellyo"] = <<[s.tellyo EXCEPT !.token = ""]>>,
        !["lec.cloudport"] = <<[s.cloudport EXCEPT !.userAuthToken = ""]>>]
  IN IF s.rememberSecrets
     THEN [plain EXCEPT !["lec.jwt"] = <<s.jwt>>,
                        !["lec.cfgBearer"] = <<s.bearer>>,
                        !["lec.tellyo"] = <<s.tellyo>>,
                        !["lec.cloudport"] = <<s.cloudport>>]
     ELSE [plain EXCEPT !["lec.jwt"] = <<>>, !["lec.cfgBearer"] = <<>>]

\* the persist effect on session storage: lec.session
PersistSession(s) ==
  <<[jwt |-> s.jwt, bearer |-> s.bearer, tellyoToken |-> s.tellyo.token,
     cloudportToken |-> s.cloudport.userAuthToken]>>

\* the load effect: the settings built from local and session storage
LoadSettings(ls, ss) ==
  LET remember == ls["lec.remember"] = <<"1">>
      sess == IF ss = <<>>
              THEN [jwt |-> "", bearer |-> "", tellyoToken |-> "", cloudportToken |-> ""]
              ELSE ss[1]
      kept(k) == IF remember THEN GetItem(ls, k) ELSE ""
  IN [jwt |-> OrElse(sess.jwt, kept("lec.jwt")),
      bearer |-> OrElse(sess.bearer, kept("lec.cfgBearer")),
      rememberSecrets |-> remember,
      tellyo |->
        IF ls["lec.tellyo"] = <<>> THEN initialSettings.tellyo
        ELSE LET parsed == ls["lec.tellyo"][1]
             IN [apiEndpoint |-> parsed.apiEndpoint,
                 apiVersion |-> OrElse(parsed.apiVersion, "v2"),
                 organizationId |-> parsed.organizationId,
                 token |-> OrElse(sess.tellyoToken, IF remember THEN parsed.token ELSE "")],
      cloudport |->
        IF ls["lec.cloudport"] = <<>> THEN initialSettings.cloudport
        ELSE LET parsed == ls["lec.cloudport"][1]
             IN [release |-> OrElse(parsed.release, "CP_3.31.x+"),
                 baseHost |-> parsed.baseHost,
                 userAuthToken |-> OrElse(sess.cloudportToken,
                                          IF remember THEN parsed.userAuthToken ELSE "")],
      orgGuid |-> GetItem(ls, "lec.org"),
      base |-> GetItem(ls, "lec.base"),
      accent |-> OrElse(GetItem(ls, "lec.accent"), "#f97316"),
      safeMode |-> GetItem(ls, "lec.safeMode") # "0",
      bypassVideonError |-> GetItem(ls, "lec.bypassVideonError") = "true",
      pollRate |-> LET n == StringNumber(GetItem(ls, "lec.pollRate"))
                   IN IF n # 0 THEN n ELSE 5000]

storeRest == <<cfgVars, pollVars, restartVars, deleteVars, listVars, cmdVars, chanVars,
               srtVars, loadVars>>

\* the effects of the first render, in the order of their declaration: the load effect
\* reads the storage and calls setSettings(loaded), the persist effect stores the
\* settings of this render, initialSettings
MountEffects ==
  /\ spc = "Mount"
  /\ settings' = LoadSettings(localStorage, sessionStorage)
  /\ localStorage' = PersistLocal(settings, localStorage)
  /\ sessionStorage' = PersistSession(settings)
  /\ spc' = "Loaded"
  /\ UNCHANGED <<nSaves, persisted, storeRest>>

\* the persist effect after the settings changed
PersistEffect ==
  /\ spc \in {"Loaded", "Changed"}
  /\ localStorage' = PersistLocal(settings, localStorage)
  /\ sessionStorage' = PersistSession(settings)
  /\ spc' = "Ready"
  /\ UNCHANGED <<settings, nSaves, persisted, storeRest>>

\* Save in the settings view: setSettings(draftSettings)
SaveSettings(drafts) ==
  /\ spc = "Ready" /\ nSaves < MaxSaves
  /\ \E d \in drafts : settings' = d
  /\ spc' = "Changed" /\ nSaves' = nSaves + 1
  /\ UNCHANGED <<localStorage, sessionStorage, persisted, storeRest>>

\* drafts that differ in the credentials and in 'Remember API tokens on this device'
SecretDrafts ==
  {[settings EXCEPT !.jwt = j, !.bearer = b, !.tellyo.token = t,
                    !.cloudport.userAuthToken = c, !.rememberSecrets = r] :
     j \in {"", "jwt-1"}, b \in {"", "bearer-1"}, t \in {"", "tellyo-1"},
     c \in {"", "cloudport-1"}, r \in BOOLEAN}

\* drafts that differ in the fields without a secret, tokens remembered
PlainDrafts ==
  {[settings EXCEPT !.safeMode = m, !.bypassVideonError = y, !.pollRate = n,
                    !.orgGuid = g, !.base = u, !.accent = a, !.rememberSecrets = TRUE] :
     m \in BOOLEAN, y \in BOOLEAN, n \in {1000, 50000}, g \in {"", "org-1"},
     u \in {"", "https://api.example"}, a \in {"#f97316", "#22c55e"}}

saveSecrets == SaveSettings(SecretDrafts)
savePlain == SaveSettings(PlainDrafts)

\* the page is loaded again, in the same tab (session storage kept) or in a new
\* session (session storage empty): a new App with initialSettings, its effects due
Reload ==
  /\ spc = "Ready"
  /\ persisted' = settings
  /\ settings' = initialSettings
  /\ \E ss \in {sessionStorage, <<>>} : sessionStorage' = ss
  /\ spc' = "Mount"
  /\ UNCHANGED <<localStorage, nSaves, storeRest>>

InitStorage ==
  /\ InitConfigure(PlainScenario)
  /\ InitPoll(DemoOuts, DemoOuts)
  /\ InitMore

NextSecrets ==
  \/ MountEffects
  \/ PersistEffect
  \/ saveSecrets
  \/ Reload

SpecSecrets == InitStorage /\ [][NextSecrets]_vars

NextPlain ==
  \/ MountEffects
  \/ PersistEffect
  \/ savePlain
  \/ Reload

SpecPlain == InitStorage /\ [][NextPlain]_vars

\* ------------------------------------------------- App: device polling effect
\* the timer ticks of one behaviour
MaxTicks == 3

loadRest == <<cfgVars, pollVars, restartVars, deleteVars, listVars, cmdVars, chanVars,
              srtVars, storeVars>>

\* the loads in progress without the i-th, which ended
Ended(seq, i) == SubSeq(seq, 1, i - 1) \o SubSeq(seq, i + 1, Len(seq))

\* load() without its guard
LoadUnguarded ==
  /\ busy' = TRUE
  /\ loads' = Append(loads, "List")
  /\ started' = started + 1
  /\ refused' = refused

\* load() up to its first await: if (busy || !alive) return; busy = true; then the
\* await of API.listDevices
LoadHead ==
  IF busy \/ ~alive
  THEN /\ refused' = refused + 1
       /\ UNCHANGED <<busy, loads, started>>
  ELSE /\ busy' = TRUE
       /\ loads' = Append(loads, "List")
       /\ started' = started + 1
       /\ refused' = refused

\* the effect body: load(); t = setInterval(load, pollRate)
PollingEffect ==
  /\ epc = "Due"
  /\ LoadHead
  /\ timer' = TRUE
  /\ epc' = "Active"
  /\ UNCHANGED <<alive, rows, ticks, loadsFailed, loadRest>>

\* the interval timer fires: load()
TimerTick ==
  /\ timer /\ ticks < MaxTicks
  /\ ticks' = ticks + 1
  /\ LoadHead
  /\ UNCHANGED <<epc, alive, timer, rows, loadsFailed, loadRest>>

\* catch and finally of load: demo rows without a token, else no rows and a toast;
\* busy = false
LoadFailed(i) ==
  /\ rows' = (IF settings.jwt = "" THEN "demo" ELSE "empty")
  /\ loadsFailed' = loadsFailed + 1
  /\ busy' = FALSE
  /\ loads' = Ended(loads, i)

\* API.listDevices answered: with the list (then the await of the states and shadows of
\* its devices), or with an error
ListAnswered ==
  /\ \E i \in 1..Len(loads) :
       /\ loads[i] = "List"
       /\ \/ /\ loads' = [loads EXCEPT ![i] = "States"]
             /\ UNCHANGED <<rows, loadsFailed, busy>>
          \/ LoadFailed(i)
  /\ UNCHANGED <<epc, alive, timer, ticks, started, refused, loadRest>>

\* the states and shadows answered (each request has its own catch): setRows, and
\* finally busy = false
StatesAnswered ==
  /\ \E i \in 1..Len(loads) :
       /\ loads[i] = "States"
       /\ loads' = Ended(loads, i)
  /\ rows' = "devices"
  /\ busy' = FALSE
  /\ UNCHANGED <<epc, alive, timer, ticks, started, refused, loadsFailed, loadRest>>

\* the cleanup of the effect: alive = false; clearInterval(t)
PollingCleanup ==
  /\ epc = "Active"
  /\ alive' = FALSE
  /\ timer' = FALSE
  /\ epc' = "Cleaned"
  /\ UNCHANGED <<busy, loads, rows, ticks, started, refused, loadsFailed, loadRest>>

\* the effect of an App whose settings hold a device access token or none
InitPolling ==
  /\ InitConfigure(PlainScenario)
  /\ InitPoll(DemoOuts, DemoOuts)
  /\ InitCore /\ InitCmd /\ InitChan /\ InitSrt /\ InitLoad
  /\ \E j \in {"", "jwt-1"} : settings = [initialSettings EXCEPT !.jwt = j]
  /\ localStorage = [k \in StorageKeys |-> <<>>]
  /\ sessionStorage = <<>>
  /\ spc = "Ready" /\ nSaves = 0 /\ persisted = initialSettings

NextPolling ==
  \/ PollingEffect
  \/ TimerTick
  \/ ListAnswered
  \/ StatesAnswered
  \/ PollingCleanup

SpecPolling == InitPolling /\ [][NextPolling]_vars

\* ================================================================ properties
PlatformIdx(outputs) == {i \in 1..Len(outputs) : IsPlatform(outputs[i].target)}

RangeExhaustedMessage == "Port range exhausted (10001-10100)"

\* C1: a run over a profile with N platform intents, N <= 100, gives them N pairwise
\* distinct provisional ports inside 10001..10100; with N > 100 the run stops with
\* the range-exhausted error, the stored profile is as it was (no port on it) and
\* no device or registry call has been issued.
C1_PortAllocation ==
  run # "none" =>
    LET P == PlatformIdx(cur.outputs)
    IN /\ Cardinality(P) <= PortRange =>
            /\ pc # "Thrown"
            /\ Len(newOutputs) = Len(cur.outputs)
            /\ \A i \in P : newOutputs[i].tempPort \in PortFirst..PortLast
            /\ \A i, j \in P : i # j => newOutputs[i].tempPort # newOutputs[j].tempPort
       /\ Cardinality(P) > PortRange =>
            /\ pc = "Thrown"
            /\ thrown = RangeExhaustedMessage
            /\ calls = <<>>
            /\ profiles = cur
            /\ \A i \in 1..Len(profiles.outputs) : profiles.outputs[i].tempPort = Undefined
            /\ devPending.Encoders = NoCommand /\ devPending.Outputs = NoCommand

\* C1 witness: a profile of exactly 100 platform intents, the last one on port 10100
C1_FullRangeAssigned ==
  /\ pc = "FetchState"
  /\ Cardinality(PlatformIdx(cur.outputs)) = PortRange
  /\ newOutputs[Len(newOutputs)].tempPort = PortLast
  /\ newOutputs[1].tempPort = PortFirst

\* the other half of C1 is reached too: 101 intents, the run thrown
C1_ExhaustedReached ==
  /\ pc = "Thrown"
  /\ Cardinality(PlatformIdx(cur.outputs)) = PortRange + 1

FirstTrue(s) == IF \E i \in 1..Len(s) : s[i]
                THEN CHOOSE i \in 1..Len(s) : s[i] /\ \A j \in 1..(i-1) : ~s[j]
                ELSE 0

\* C2: when check first holds on the k-th fetch, k in 1..3, the poller returns
\* ok = true after exactly k waits (the first k delays) and k fetches, and no fetch
\* is ever issued after one on which check held.
C2_ReturnsOnFirstTrue ==
  /\ \A i \in 1..(Len(checks) - 1) : ~checks[i]
  /\ Len(checks) = fetches
  /\ LET k == FirstTrue(checks)
     IN k \in 1..Len(OUTPUT_CONFIRM_DELAYS) =>
          /\ tpc = "End"
          /\ pollRes.returned /\ pollRes.ok
          /\ waits = SubSeq(OUTPUT_CONFIRM_DELAYS, 1, k)
          /\ fetches = k
          /\ Len(SelectSeq(toggleCalls, LAMBDA c : c = "deviceShadows")) = k
          /\ opStatus = "ok"

\* C2 witness: check false on the first fetch, true on the second: ok with 2 waits
C2_TrueAfterSecondDelay ==
  /\ tpc = "End"
  /\ checks = <<FALSE, TRUE>>
  /\ pollRes.ok
  /\ waits = <<300, 600>>

\* C3: when check holds on no fetch, the poller ends with ok = false after the
\* three waits 300, 600, 1200 in that order and four fetches, the last one with
\* no wait before it, and returns the list of that last fetch.
C3_TimesOutAfterFinalFetch ==
  (tpc = "End" /\ pollRes.returned /\ \A i \in 1..Len(checks) : ~checks[i]) =>
     /\ ~pollRes.ok
     /\ waits = <<300, 600, 1200>>
     /\ waits = OUTPUT_CONFIRM_DELAYS
     /\ fetches = 4
     /\ Len(checks) = 4
     /\ toggleCalls = <<"postOutputs", "deviceShadows", "deviceShadows", "deviceShadows",
                        "deviceShadows">>
     /\ pollRes.outs = lastOuts
     /\ opStatus = "err"

\* C3 witness: a toggle the device never carried out, reported as not confirmed
C3_NeverConfirmed ==
  /\ tpc = "End"
  /\ pollRes.returned /\ ~pollRes.ok
  /\ fetches = 4
  /\ checks = <<FALSE, FALSE, FALSE, FALSE>>
  /\ terr = "Output  did not confirm."

Has(seq, x) == \E i \in 1..Len(seq) : seq[i] = x

TellyoCalls == {"tellyoListChannels", "tellyoUpdateChannel", "tellyoCreateChannel"}
CloudportCalls == {"cloudportFetchByLabel", "cloudportUpdate", "cloudportCreate"}
RegistryCalls == TellyoCalls \cup CloudportCalls

DownstreamPcs == {"TellyoList", "TellyoUpsert", "CloudportSleep", "CloudportFetch",
                  "CloudportUpsert", "Done"}

NoDuplicateLabels(entities) ==
  \A i, j \in 1..Len(entities) : i # j => entities[i].label # entities[j].label

\* C4: a second run of the same profile against the same device and registries,
\* after a first run that configured a platform, updates that platform's entity
\* and creates none: each registry keeps the number of entities the first run
\* left, and no label is carried by two entities.
C4_SecondRunUpdates ==
  /\ NoDuplicateLabels(tellyoChannels)
  /\ NoDuplicateLabels(cpIngests)
  /\ (run = "second" /\ firstRun.tellyo = "success") =>
        /\ Len(tellyoChannels) = firstRun.channels
        /\ ~Has(calls, "tellyoCreateChannel")
        /\ tellyoStatus.state = "success" => tellyoStatus.message = "Channel updated"
  /\ (run = "second" /\ firstRun.cloud = "success") =>
        /\ Len(cpIngests) = firstRun.ingests
        /\ ~Has(calls, "cloudportCreate")
        /\ cloudStatus.state = "success" => cloudStatus.message = "Ingest updated"

\* C4 witness: both entities created by the first run, both updated by the second
C4_CreatedThenUpdated ==
  /\ run = "second" /\ pc = "Done"
  /\ firstRun.tellyo = "success" /\ firstRun.cloud = "success"
  /\ firstRun.channels = 1 /\ firstRun.ingests = 1
  /\ tellyoStatus = Status("success", "Channel updated")
  /\ cloudStatus = Status("success", "Ingest updated")
  /\ Has(calls, "tellyoUpdateChannel") /\ Has(calls, "cloudportUpdate")

\* what a device step reports when its request fails or it throws
DeviceStepFailures ==
  {"WriteEncoders", "VerifyEncoders read", "VerifyEncoders", "WriteOutputs",
   "VerifyOutputs read"}

ThrownFailures == {"WriteEncoders", "VerifyEncoders", "WriteOutputs"}

LastStep == configSteps[Len(configSteps)]

\* C5 (as the claim states it): without bypass, once the request of a device step
\* (encoder write, encoder verification, output write, output verification) has
\* failed, the run is Failed: no registry call in the run, the last progress step
\* is an error carrying the message, the stored profile is as the run found it.
C5_DeviceFailureEndsRun ==
  (run # "none" /\ ~bypassVideonError /\ failed \cap DeviceStepFailures # {}) =>
     /\ pc = "Failed"
     /\ \A c \in RegistryCalls : ~Has(calls, c)
     /\ LastStep.status = "error" /\ LastStep.msg = err[2]
     /\ profiles = cur

FirstOf(outputs, target) == FindIndex(outputs, LAMBDA o : o.target = target)

\* C6: with bypass, no device step ends the run: after a step has thrown the run
\* is in ConfigureDownstream (or done), and the URL of every downstream payload
\* is srt://<device-ip>:<p>, p the port pre-assigned to that intent at the start.
C6_BypassProceeds ==
  (run # "none" /\ bypassVideonError) =>
     /\ pc # "Failed"
     /\ failed \cap ThrownFailures # {} =>
          /\ pc \in DownstreamPcs
          /\ ~videonSuccess
          /\ \E i \in 1..Len(configSteps) :
               configSteps[i].label = "Configuring external services..."
     /\ tellyoPayload # NoPayload =>
          tellyoPayload.streamUrl =
            StreamUrl(deviceIp, PortAt(cur.outputs, FirstOf(cur.outputs, TellyoTarget)))
     /\ cpPayload # NoPayload =>
          cpPayload.streamUrl =
            StreamUrl(deviceIp, PortAt(cur.outputs, FirstOf(cur.outputs, CloudportTarget)))

\* C6 witness: the encoder write threw, the channel was still created on port 10002
C6_BypassedToChannel ==
  /\ bypassVideonError /\ pc = "Done"
  /\ "WriteEncoders" \in failed
  /\ Len(cur.outputs) = 2
  /\ cur.outputs[1].target = CloudportTarget
  /\ tellyoStatus = Status("success", "Channel created")
  /\ tellyoPayload.streamUrl = StreamUrl(deviceIp, PortFirst + 1)

BothPlatforms ==
  FirstOf(cur.outputs, TellyoTarget) # 0 /\ FirstOf(cur.outputs, CloudportTarget) # 0

C7_Ends ==
  (run # "none" /\ BothPlatforms /\ pc = "Done") =>
     /\ tellyoStatus.state \in {"success", "error"}
     /\ cloudStatus.state \in {"success", "error"}
     /\ (tellyoStatus.state = "error" /\ cloudportSettingsOk) =>
           Has(calls, "cloudportFetchByLabel")
     /\ (tellyoStatus.state = "error" /\ ~cloudportSettingsOk) =>
           cloudStatus = Status("error", "Cloudport settings missing")

C7_CloudportStep ==
  pc \in {"CloudportSleep", "CloudportFetch", "CloudportUpsert"} =>
     tellyoStatus' = tellyoStatus

\* C7: for a profile with both platforms, a failed Channel Registry call does not
\* keep the Ingest Registry lookup from being issued in the same run, no step of
\* the Cloudport block changes the channel status, and at the end each platform
\* has its own success or error status.
C7_PlatformsIndependent == [](C7_Ends) /\ [][C7_CloudportStep]_vars

\* C7 witness: the channel call failed and the ingest was created all the same
C7_ChannelFailedIngestDone ==
  /\ pc = "Done" /\ BothPlatforms
  /\ tellyoStatus.state = "error"
  /\ cloudStatus = Status("success", "Ingest created")

\* C8 (as the claim states it): without bypass, a registry create or update is
\* issued for a platform only when VerifyOutputs recorded a device id on that
\* platform's intent.
C8_UpsertOnlyWhenDeployed ==
  (run = "first" /\ ~bypassVideonError) =>
     /\ (Has(calls, "tellyoUpdateChannel") \/ Has(calls, "tellyoCreateChannel")) =>
           Truthy(newOutputs[FirstOf(newOutputs, TellyoTarget)].videonId)
     /\ (Has(calls, "cloudportUpdate") \/ Has(calls, "cloudportCreate")) =>
           Truthy(newOutputs[FirstOf(newOutputs, CloudportTarget)].videonId)

AsArray(sh) == IF sh.present THEN [sh EXCEPT !.state.shape = "array"] ELSE sh

AsArrays(read) == [n \in DOMAIN read |-> AsArray(read[n])]

Reads(n) == Len(SelectSeq(calls, LAMBDA c : c = "deviceShadows")) >= n

\* C9 (as the claim states it): the input id, vidId, audId and the output id
\* recorded on each intent are those the same entries give when reported as an
\* array.
C9_ShapeIndependent ==
  run # "none" =>
     /\ encWrite # NoCommand => encWrite.in_channel_id = InputIdOf(AsArrays(shRes))
     /\ (Reads(2) /\ pc # "VerifyEncoders") =>
           /\ vidId = ResolveId(AsArray(shRes2.Encoders), videoName, "video", preVideoIds)
           /\ audId = ResolveId(AsArray(shRes2.Encoders), audioName, "audio", preAudioIds)
     /\ videonSuccess =>
           newOutputs = MatchReported(AsArray(finalShRes.Outputs), PreAssign(cur.outputs),
                                      portMap)

Named(iName) == FindIndex(getItems(shRes2.Encoders), LAMBDA e : e.name = iName)

NewOnes(kind, preIds) ==
  {i \in 1..Len(getItems(shRes2.Encoders)) :
     getItems(shRes2.Encoders)[i].type = kind /\ getItems(shRes2.Encoders)[i].id \notin preIds}

Resolved(id, iName, kind, preIds) ==
  IF Named(iName) # 0 THEN id = getItems(shRes2.Encoders)[Named(iName)].id
  ELSE IF NewOnes(kind, preIds) # {}
  THEN \E i \in NewOnes(kind, preIds) : id = getItems(shRes2.Encoders)[i].id
  ELSE TRUE

\* C10 (as the claim states it): after VerifyEncoders, vidId (audId) is the id of
\* the entry named <profile>_video (_audio) when there is one, else the id of an
\* entry of the kind that was not there before the write; the step fails with
\* not-found only when, for one of the two, neither lookup finds an entry.
C10_EncoderIdsResolved ==
  (run # "none" /\ Reads(2) /\ pc # "VerifyEncoders") =>
     /\ Resolved(vidId, videoName, "video", preVideoIds)
     /\ "VerifyEncoders" \in failed =>
           \/ Named(videoName) = 0 /\ NewOnes("video", preVideoIds) = {}
           \/ /\ Resolved(audId, audioName, "audio", preAudioIds)
              /\ Named(audioName) = 0 /\ NewOnes("audio", preAudioIds) = {}
     /\ "VerifyEncoders" \notin failed =>
           Resolved(audId, audioName, "audio", preAudioIds)

ReportedOn(p) ==
  {i \in 1..Len(getItems(finalShRes.Outputs)) :
     getItems(finalShRes.Outputs)[i].type = "srt" /\ getItems(finalShRes.Outputs)[i].port = p}

\* C11 (as the claim states it): after a successful run every platform intent
\* whose port is the port of a reported srt entry carries the id of such an
\* entry, on newOutputs and on the stored profile; an intent whose port no
\* reported entry has keeps the videonId it had.
C11_IdsRecordedByPort ==
  (run # "none" /\ videonSuccess) =>
     \A k \in PlatformIdx(cur.outputs) :
        /\ profiles.outputs[k].videonId = newOutputs[k].videonId
        /\ IF ReportedOn(newOutputs[k].tempPort) # {}
           THEN \E i \in ReportedOn(newOutputs[k].tempPort) :
                   newOutputs[k].videonId = getItems(finalShRes.Outputs)[i].id
           ELSE newOutputs[k].videonId = cur.outputs[k].videonId

IsListener(e) == e.type = "srt" /\ e.call_mode = "LISTENER" /\ e.enable

\* C12 (as the claim states it): the Outputs state a run writes never holds two
\* enabled listener entries on the same port.
C12_NoListenerPortTwice ==
  outWrite # NoCommand =>
     \A i, j \in 1..Len(outWrite.state) :
        (i # j /\ IsListener(outWrite.state[i]) /\ IsListener(outWrite.state[j]))
           => outWrite.state[i].port # outWrite.state[j].port

\* ------------------------------------------------------------------ restart
\* the ids of the entries of a read that have enable = true
EnabledIds(sh) == {sh.state.items[i].id : i \in {k \in 1..Len(sh.state.items) : sh.state.items[k].enable}}

\* the ids a write names, and the flag it sets
WriteIds(w) == {w.state[i].id : i \in 1..Len(w.state)}
WriteSets(w, enable) == \A i \in 1..Len(w.state) : w.state[i].enable = enable

\* C13: once the first read of handleRestart has reported the Outputs shadow with no
\* entry enabled, the operation is over with op = 'restart-ok' and no shadow write
\* has been issued.
C13_ZeroEnabledNoWrite ==
  (rpc \notin {"Idle", "Read"} /\ rReads[1].present /\ EnabledIds(rReads[1]) = {})
    => (rpc = "End" /\ op = "restart-ok" /\ rWrites = <<>> /\ rPending = NoCommand)

\* a restart of a device whose outputs are all disabled has ended
C13_AllDisabledEnded ==
  /\ rpc = "End" /\ op = "restart-ok"
  /\ Len(devOutputs) >= 1 /\ \A i \in 1..Len(devOutputs) : ~devOutputs[i].enable
  /\ rReads[1].present /\ rWrites = <<>>

\* C14: a restart with enabled entries issues two Outputs writes: the first disables
\* the entries the first read reported enabled and carries that read's version, the
\* second enables the same ids and carries the version the re-read observed; after a
\* failed first write there is no second write.
C14_StopThenStartFreshVersion ==
  /\ Len(rWrites) <= 2
  /\ (Len(rWrites) >= 1 =>
        /\ rWrites[1].target_version = rReads[1].version
        /\ WriteIds(rWrites[1]) = EnabledIds(rReads[1])
        /\ WriteSets(rWrites[1], FALSE))
  /\ (Len(rWrites) = 2 =>
        /\ Len(rReads) = 2 /\ rReads[2].present
        /\ rWrites[2].target_version = rReads[2].version
        /\ WriteIds(rWrites[2]) = EnabledIds(rReads[1])
        /\ WriteSets(rWrites[2], TRUE))
  /\ (rpc = "End" /\ op = "restart-ok" /\ targets # <<>> => Len(rWrites) = 2)
  /\ (rpc = "End" /\ op = "restart-err" /\ Len(rReads) = 1 => Len(rWrites) <= 1)

\* ------------------------------------------------------------ write versions
\* C15: every versioned write of handleConfigure carries the version of its shadow
\* that the preceding read of the run observed: the Encoders write the Encoders
\* version of the FetchState read, the Outputs write the Outputs version of the
\* VerifyEncoders re-read.
C15_WritesCarryObservedVersion ==
  /\ (encWrite # NoCommand =>
        shRes.Encoders.present /\ encWrite.target_version = shRes.Encoders.version)
  /\ (outWrite # NoCommand =>
        shRes2.Outputs.present /\ outWrite.target_version = shRes2.Outputs.version)

\* ------------------------------------------------------------- failed reads
FailedReads == failed \cap {"FetchState read", "VerifyEncoders read", "VerifyOutputs read"}

\* C16: a deviceShadows read of the run that failed is a step failure: no shadow
\* write is issued after it, and when the run is over the failure has been reported
\* in err.
C16_FailedReadHaltsRun ==
  /\ ("FetchState read" \in failed => encWrite = NoCommand /\ outWrite = NoCommand)
  /\ ("VerifyEncoders read" \in failed => outWrite = NoCommand)
  /\ (RunEnded /\ FailedReads # {} => err # <<>>)

\* ------------------------------------------------------------ step ordering
DeviceWrites == {"setDeviceShadows Encoders", "setDeviceShadows Outputs"}
Positions(c) == {i \in 1..Len(calls) : calls[i] = c}
Before(c, d) == \A j \in Positions(d) : \E i \in Positions(c) : i < j

\* the entries of the Outputs write that the run pushed
PushedOf(w) == {i \in 1..Len(w.state) : w.state[i].id = Undefined}

\* C17: in every run the Encoders write follows the FetchState read; the Outputs
\* write follows the acknowledged Encoders write and the re-read, both encoder ids
\* are resolved by then and the entries the run pushed name exactly them as sources;
\* every registry call comes after the last device call, with the device steps
\* succeeded or failed under bypass.
C17_StepsInOrder ==
  /\ Before("deviceShadows", "setDeviceShadows Encoders")
  /\ (Has(calls, "setDeviceShadows Encoders") => encWrite # NoCommand)
  /\ Before("setDeviceShadows Encoders", "setDeviceShadows Outputs")
  /\ (Has(calls, "setDeviceShadows Outputs") =>
        /\ "WriteEncoders" \notin failed
        /\ Cardinality({i \in Positions("deviceShadows") :
                          i < CHOOSE j \in Positions("setDeviceShadows Outputs") : TRUE}) = 2
        /\ Truthy(vidId) /\ Truthy(audId)
        /\ \A i \in PushedOf(outWrite) :
             outWrite.state[i].video = vidId /\ outWrite.state[i].audio = audId)
  /\ \A j \in 1..Len(calls) :
       calls[j] \in RegistryCalls =>
         /\ \A i \in 1..Len(calls) : calls[i] \in DeviceWrites \cup {"deviceShadows"} => i < j
         /\ videonSuccess \/ (bypassVideonError /\ err # <<>>)

\* a run wrote both shadows, pushed an entry and went on to the channel registry
C17_DeviceThenRegistry ==
  /\ pc = "Done" /\ videonSuccess
  /\ Has(calls, "setDeviceShadows Outputs") /\ PushedOf(outWrite) # {}
  /\ Has(calls, "tellyoCreateChannel")

\* ----------------------------------------------------------------- no retry
Count(seq, c) == Cardinality({i \in 1..Len(seq) : seq[i] = c})

\* C18: one handleConfigure run issues the Encoders write at most once, the Outputs
\* write at most once and at most one create-or-update call to each registry; one
\* toggle issues its output update exactly once, whatever the number of reads.
C18_NoWriteRetry ==
  /\ Count(calls, "setDeviceShadows Encoders") <= 1
  /\ Count(calls, "setDeviceShadows Outputs") <= 1
  /\ Count(calls, "tellyoCreateChannel") + Count(calls, "tellyoUpdateChannel") <= 1
  /\ Count(calls, "cloudportCreate") + Count(calls, "cloudportUpdate") <= 1
  /\ (tpc # "Idle" => Count(toggleCalls, "postOutputs") = 1)

\* a run wrote both shadows and reached both registries, and a toggle read the
\* shadow four times, each having written once
C18_ReadsRepeated ==
  /\ pc = "Done"
  /\ Count(calls, "setDeviceShadows Encoders") = 1 /\ Count(calls, "setDeviceShadows Outputs") = 1
  /\ Count(calls, "tellyoCreateChannel") = 1 /\ Count(calls, "cloudportCreate") = 1
  /\ Count(calls, "deviceShadows") = 3
  /\ tpc = "End" /\ Count(toggleCalls, "deviceShadows") = 4
  /\ Count(toggleCalls, "postOutputs") = 1

\* ------------------------------------------------------- confirmed by whom
\* C19: a toggle ends with 'ok' only if a read of its poller that the device
\* answered reported the toggled id with the requested enable flag; without such a
\* read it ends with 'err'.
C19_OkOnlyOnDeviceRead ==
  /\ (tpc = "End" /\ opStatus = "ok" => deviceConfirmed)
  /\ (tpc = "End" /\ ~deviceConfirmed => opStatus = "err")

\* ---------------------------------------------------------------- deletions
CallsOf(names) == {i \in 1..Len(delCalls) : delCalls[i].call \in names}

\* no call, no status and no profile change of a kind of deletion
Untouched(kind) ==
  IF kind = "tellyo" THEN CallsOf({"tellyoDeleteChannel"}) = {} /\ tellyoStatus = Status("idle", "")
  ELSE IF kind = "cloudport"
  THEN CallsOf({"cloudportFetchByLabel", "cloudportDelete"}) = {} /\ cloudStatus = Status("idle", "")
  ELSE profileListed

\* every delete call, and the removal of the profile, has its dialog confirmed; a
\* kind of deletion that was only ever cancelled has touched nothing
C20_Confirmed ==
  /\ (CallsOf({"tellyoDeleteChannel"}) # {} => "tellyo" \in confirms)
  /\ (CallsOf({"cloudportFetchByLabel", "cloudportDelete"}) # {} => "cloudport" \in confirms)
  /\ (~profileListed => "profile" \in confirms)
  /\ \A kind \in cancels \ confirms : Untouched(kind)

\* a step in which the operator's cancel closes a dialog issues no call and leaves the
\* profile, the profile list and the registries as they were
C20_CancelStep ==
  (click' = "cancel" /\ ((confirmData # NoDialog /\ confirmData' = NoDialog) \/ (delId /\ ~delId')))
    => /\ delCalls' = delCalls
       /\ profiles' = profiles /\ profileListed' = profileListed
       /\ tellyoChannels' = tellyoChannels /\ cpIngests' = cpIngests

\* C20: a Channel Registry or Ingest Registry delete call is issued, and a profile
\* removed, only after the operator confirmed the corresponding dialog; cancelling
\* the dialog issues no call and leaves the profile unchanged.
C20_DeletionNeedsConfirmation == [](C20_Confirmed) /\ [][C20_CancelStep]_vars

\* the ingest deletion was cancelled and left everything alone, the channel deletion
\* was confirmed and carried out, the profile removal was cancelled
C20_CancelledAndConfirmed ==
  /\ "cloudport" \in cancels \ confirms /\ "profile" \in cancels \ confirms
  /\ "tellyo" \in confirms /\ tellyoStatus = Status("idle", "Channel deleted")
  /\ profiles.tellyo.lastChannelId = Undefined
  /\ profiles.cloudport.lastIngestId = 1 /\ profileListed
  /\ CallsOf({"cloudportFetchByLabel", "cloudportDelete"}) = {}

\* ------------------------------------------------------------ Tellyo client
RequestsOf(names) == {i \in 1..Len(reqs) : reqs[i].req \in names}

\* C21: a call that resolves a non-numeric organization under dialect v2 queries
\* the v2 organizations listing first; the v1 organization/get is queried only
\* after the listing yielded no numeric id.
C21_ListingBeforeLegacy ==
  (info.version = "v2" /\ RequestsOf({"v1 organization/get"}) # {}) =>
    \E i \in RequestsOf({"v2 organizations"}) :
      /\ i < CHOOSE j \in RequestsOf({"v1 organization/get"}) : TRUE
      /\ reqs[i].ans \in {"no match", "error"}

OrgRequests == RequestsOf({"v1 organization/get", "v2 organizations"})
Resolving == lpc \in {"ListV2", "ListV1", "Done"} /\ toNumericOrg(info.orgId) = Undefined
SameTriple(r) == r.token = info.token /\ r.baseV2 = info.baseV2 /\ r.orgId = info.orgId

\* C22: once a call with a token, base and organization name has resolved a numeric
\* id, a later call with the same three values returns that id without a request;
\* a call answered from the cache has the three values of the call that resolved
\* the id.
C22_CachePerTriple ==
  Resolving =>
    /\ \A r \in resolvedBy : SameTriple(r) =>
         /\ orgNumeric = r.id
         /\ OrgRequests = {} \/ \E i \in OrgRequests : reqs[i].ans = "id"
    /\ (OrgRequests = {} /\ orgNumeric # Undefined) => \E r \in resolvedBy : SameTriple(r)

\* C23: with dialect v2 and a numeric organization id, the v1 channel/get call is
\* made exactly when the v2 listing failed with method not found / 404 / 405, and
\* then once; any other v2 failure is surfaced and a v2 listing that succeeds is the
\* result, both without a v1 call.
C23_LegacyOnlyWhenNotSupported ==
  (lpc = "Done" /\ info.version = "v2" /\ orgNumeric # Undefined) =>
    LET v2 == reqs[CHOOSE i \in RequestsOf({"v2 channels"}) : TRUE].ans
        v1 == RequestsOf({"v1 channel/get"})
    IN /\ Cardinality(RequestsOf({"v2 channels"})) = 1
       /\ Cardinality(v1) <= 1
       /\ (v1 # {} <=> v2 \in {"404", "405", "method not found"})
       /\ (v2 = "500" => listed = "error")
       /\ (v2 \in {"channels", "empty"} => listed = "v2")

\* the entities of a registry whose label equals the requested one ignoring case
SameLabel(registry, label) ==
  {i \in 1..Len(registry) : toLowerCase(registry[i].label) = toLowerCase(label)}

\* an upsert decided on a lookup by label: when the registry holds entities of that label
\* ignoring case, the upsert is an update of one of them, of one in the exact case if any
UpdatesFound(payload, registry, label) ==
  SameLabel(registry, label) # {} =>
    /\ payload.op = "update"
    /\ \E i \in SameLabel(registry, label) :
         /\ registry[i].id = payload.id
         /\ (\E j \in SameLabel(registry, label) : registry[j].label = label)
              => registry[i].label = label

\* C24: the lookup by label returns an entity whose label equals the requested label
\* ignoring case whenever the registry holds one, an exact-case match preferred, so the
\* upsert that follows updates it; for the ingest lookup and for the channel lookup alike
C24_LookupIgnoresCase ==
  /\ pc = "TellyoUpsert" => UpdatesFound(tellyoPayload, tellyoChannels, ChannelNameOf(cur))
  /\ pc = "CloudportUpsert" => UpdatesFound(cpPayload, cpIngests, cpPayload.label)

\* the same for the ingest lookup alone
C24_IngestLookup ==
  pc = "CloudportUpsert" => UpdatesFound(cpPayload, cpIngests, cpPayload.label)

\* the intents of the run that target a platform
IntentsFor(target) == {i \in 1..Len(newOutputs) : newOutputs[i].target = target}

\* C25: a run whose downstream step succeeded on a platform has called that platform's
\* create-or-update once for each output intent that targets it: once for one intent,
\* k times for k intents
C25_UpsertPerIntent ==
  /\ (pc = "Done" /\ tellyoStatus.state = "success")
       => Count(calls, "tellyoUpdateChannel") + Count(calls, "tellyoCreateChannel")
            = Cardinality(IntentsFor(TellyoTarget))
  /\ (pc = "Done" /\ cloudStatus.state = "success")
       => Count(calls, "cloudportUpdate") + Count(calls, "cloudportCreate")
            = Cardinality(IntentsFor(CloudportTarget))

\* the same for profiles with at most one intent for each platform
C25_SingleIntent ==
  (Cardinality(IntentsFor(TellyoTarget)) <= 1 /\ Cardinality(IntentsFor(CloudportTarget)) <= 1)
    => C25_UpsertPerIntent

\* what an upsert answered with success leaves in the stored profile: the id of the
\* entity written (nextId is the id a create gives) and the URL of the call; what a
\* failed upsert leaves: the two fields as they were
Recorded(payload, nextId, okNow, idBefore, urlBefore, idAfter, urlAfter) ==
  IF okNow
  THEN /\ idAfter = (IF payload.op = "update" THEN payload.id ELSE nextId)
       /\ urlAfter = payload.streamUrl
  ELSE idAfter = idBefore /\ urlAfter = urlBefore

C26_UpsertStep ==
  /\ pc = "TellyoUpsert" =>
       Recorded(tellyoPayload, tellyoNextId, tellyoStatus'.state = "success",
                profiles.tellyo.lastChannelId, profiles.tellyo.lastStreamUrl,
                profiles'.tellyo.lastChannelId, profiles'.tellyo.lastStreamUrl)
  /\ pc = "CloudportUpsert" =>
       Recorded(cpPayload, cpNextId, cloudStatus'.state = "success",
                profiles.cloudport.lastIngestId, profiles.cloudport.lastStreamUrl,
                profiles'.cloudport.lastIngestId, profiles'.cloudport.lastStreamUrl)

\* C26: after every successful upsert of ConfigureDownstream, a create as well as an
\* update, on either platform, the stored profile holds the entity's id and the stream
\* URL of the call; after a failed upsert the two fields are unchanged
C26_UpsertRecorded == [][C26_UpsertStep]_vars

\* the same for the upserts that are updates or that fail
C26_UpdateRecorded ==
  [][(/\ pc = "TellyoUpsert" => tellyoPayload.op = "update" \/ tellyoStatus'.state # "success"
      /\ pc = "CloudportUpsert" => cpPayload.op = "update" \/ cloudStatus'.state # "success")
       => C26_UpsertStep]_vars

\* what a delete answered by the registry leaves: after a success the remembered id and
\* URL both cleared, after a failure both unchanged and the status 'error'
Forgotten(deleted, status, idBefore, urlBefore, idAfter, urlAfter) ==
  IF deleted
  THEN idAfter = Undefined /\ urlAfter = NoUrl
  ELSE idAfter = idBefore /\ urlAfter = urlBefore /\ status.state = "error"

C27_DeleteStep ==
  /\ dpc.tellyo = "Delete" /\ dpc'.tellyo = "Idle" =>
       Forgotten(tellyoChannels' # tellyoChannels, tellyoStatus',
                 profiles.tellyo.lastChannelId, profiles.tellyo.lastStreamUrl,
                 profiles'.tellyo.lastChannelId, profiles'.tellyo.lastStreamUrl)
  /\ dpc.cloudport \in {"Fetch", "Delete"} /\ dpc'.cloudport = "Idle" =>
       Forgotten(cpIngests' # cpIngests, cloudStatus',
                 profiles.cloudport.lastIngestId, profiles.cloudport.lastStreamUrl,
                 profiles'.cloudport.lastIngestId, profiles'.cloudport.lastStreamUrl)

\* C27: after a confirmed delete whose registry call succeeds the profile's remembered
\* id and last stream URL for that platform are both cleared; after one whose call fails
\* they are unchanged and the platform's status is 'error'
C27_DeleteClearsProfile == [][C27_DeleteStep]_vars

\* the same with the ingest's URL left out: the channel in full, the ingest's id alone
C27_ChannelAndIngestId ==
  [][/\ dpc.tellyo = "Delete" /\ dpc'.tellyo = "Idle" =>
          Forgotten(tellyoChannels' # tellyoChannels, tellyoStatus',
                    profiles.tellyo.lastChannelId, profiles.tellyo.lastStreamUrl,
                    profiles'.tellyo.lastChannelId, profiles'.tellyo.lastStreamUrl)
     /\ dpc.cloudport \in {"Fetch", "Delete"} /\ dpc'.cloudport = "Idle" =>
          Forgotten(cpIngests' # cpIngests, cloudStatus',
                    profiles.cloudport.lastIngestId, NoUrl,
                    profiles'.cloudport.lastIngestId, NoUrl)]_vars

\* the labels of the steps in the order handleConfigure starts them
StepOrder ==
  << "Initializing configuration...", "Fetching device state...", "Configuring encoders...",
     "Waiting for encoders to initialize (20s)...", "Verifying encoder creation...",
     "Configuring outputs...", "Finalizing Videon configuration...",
     "Configuring external services..." >>

StepAt(label) == CHOOSE k \in 1..Len(StepOrder) : StepOrder[k] = label

\* the log entries with a status
StepsIn(status) == {i \in 1..Len(configSteps) : configSteps[i].status = status}

\* the label of the step in which an error of the device part was thrown
ThrownIn(f) ==
  CASE f = "WriteEncoders" -> "Configuring encoders..."
    [] f = "VerifyEncoders" -> "Verifying encoder creation..."
    [] f = "WriteOutputs" -> "Configuring outputs..."
    [] OTHER -> ""

\* at most one entry is 'running' and it is the last one
C28_OneRunningLast ==
  Cardinality(StepsIn("running")) <= 1 /\ StepsIn("running") \subseteq {Len(configSteps)}

\* the entries are in the order the steps were started
C28_InOrder ==
  \A i, j \in 1..Len(configSteps) :
    i < j => StepAt(configSteps[i].label) < StepAt(configSteps[j].label)

\* no entry is 'running' once the run has ended
C28_NoneRunningAtEnd == RunEnded => StepsIn("running") = {}

\* no step in which an error was thrown is shown as 'done'
C28_FailedNotDone ==
  \A i \in StepsIn("done") : \A f \in failed : ThrownIn(f) # configSteps[i].label

\* C28: in every state of a handleConfigure run at most one log entry is 'running' and it
\* is the last; the entries are in the order the steps were started; once the run has
\* ended no entry is 'running'; a step that failed is never shown as 'done', with or
\* without bypass
C28_ProgressLog ==
  /\ C28_OneRunningLast
  /\ C28_InOrder
  /\ C28_NoneRunningAtEnd
  /\ C28_FailedNotDone

\* the same for runs that are not bypassed and whose ports are in range
C28_PlainRuns == (~bypassVideonError /\ pc # "Thrown") => C28_ProgressLog

\* the entries of a list with a name
EntriesNamed(list, name) == {i \in 1..Len(list) : list[i].name = name}

\* the entries of a list that carry neither of the profile's two names, in their order
OthersOf(list) == SelectSeq(list, LAMBDA e : e.name \notin {videoName, audioName})

\* the Encoders state of a write against the device's entries before the write
Replaces(written, existing) ==
  /\ EntriesNamed(written, videoName) = {Len(written) - 1}
  /\ EntriesNamed(written, audioName) = {Len(written)}
  /\ written[Len(written) - 1].id = Undefined /\ written[Len(written)].id = Undefined
  /\ OthersOf(written) = OthersOf(existing)

\* C29: the Encoders state written by handleConfigure holds exactly one entry named
\* '<profile>_video' and exactly one named '<profile>_audio', the two new ones, last,
\* and every entry the device held before under another name, unchanged and in order
C29_EncodersReplaced ==
  pc = "WriteEncoders" => Replaces(encWrite.state, devEncoders)

\* the same for the runs whose first read was answered by the device
C29_ReplacedWhenRead ==
  (pc = "WriteEncoders" /\ "FetchState read" \notin failed)
    => Replaces(encWrite.state, devEncoders)

\* a write that replaced two old entries and kept another one
C29_OldReplaced ==
  /\ pc = "WriteEncoders" /\ "FetchState read" \notin failed
  /\ EntriesNamed(devEncoders, videoName) # {} /\ EntriesNamed(devEncoders, audioName) # {}
  /\ Len(OthersOf(encWrite.state)) > 0

\* the port of the entry handleConfigure pushes for newOutputs[k]
PortOfIntent(k) ==
  IF IsPlatform(newOutputs[k].target) THEN newOutputs[k].tempPort ELSE manualPort + (k - 1)

\* the intents for which a run pushes an entry
Pushing == {k \in 1..Len(newOutputs) : Pushes(newOutputs[k], manualPort)}

\* the entries of an Outputs state for newOutputs[k]
EntriesFor(list, k) == {i \in 1..Len(list) : list[i].port = PortOfIntent(k)}

\* the state of the Outputs write: for each intent with a remembered id no entry of
\* that id, and one new entry for the intent
C30_WrittenReplaces ==
  pc = "WriteOutputs" =>
    \A k \in Pushing :
      newOutputs[k].videonId # Undefined =>
        /\ \A i \in 1..Len(outWrite.state) : outWrite.state[i].id # newOutputs[k].videonId
        /\ Cardinality({i \in EntriesFor(outWrite.state, k) :
                          outWrite.state[i].id = Undefined}) = 1

\* after the runs, their writes applied, the device holds at most one entry per intent
C30_OnePerIntent ==
  (RunEnded /\ videonSuccess /\ devPending.Outputs = NoCommand)
    => \A k \in Pushing : Cardinality(EntriesFor(devOutputs, k)) <= 1

\* C30: for each output intent with a remembered device id the Outputs state written by
\* a run holds no earlier entry of that id and exactly one new entry for the intent, so
\* that after consecutive successful runs of the same profile against the same device,
\* the device applying each write and reporting the new entries, the device holds at
\* most one Output Entry per intent
C30_OutputsReplaced == C30_WrittenReplaces /\ C30_OnePerIntent

\* the same for array-shaped reports and platform intents only
C30_ArrayPlatforms ==
  (devShape = "array" /\ manualPort = Undefined) => C30_OutputsReplaced

\* the entities of a registry whose label differs from the requested one ignoring case
\* are, after a step, in the registry as they were
OthersKept(before, after, label) ==
  \A i \in 1..Len(before) :
    toLowerCase(before[i].label) # toLowerCase(label)
      => i <= Len(after) /\ after[i] = before[i]

C31_UpsertStep ==
  /\ pc = "TellyoUpsert" => OthersKept(tellyoChannels, tellyoChannels', tellyoPayload.label)
  /\ pc = "CloudportUpsert" => OthersKept(cpIngests, cpIngests', cpPayload.label)

\* C31: a create-or-update issued by ConfigureDownstream for a label never modifies a
\* registry entity whose label differs from it ignoring case: with only other labels in
\* the registry the run creates a new entity and leaves the existing ones unchanged
C31_UpsertKeepsOthers == [][C31_UpsertStep]_vars

\* the same for the Channel Registry, and for an Ingest Registry that filters by label
C31_ChannelsAndFiltered ==
  [][/\ pc = "TellyoUpsert" => OthersKept(tellyoChannels, tellyoChannels', tellyoPayload.label)
     /\ (pc = "CloudportUpsert" /\ cpFilters)
          => OthersKept(cpIngests, cpIngests', cpPayload.label)]_vars

\* C32: after a handleConfigure run has terminated neither the channel status nor the
\* ingest status is 'pending' and no progress-log entry is 'running', for every profile,
\* those with more platform intents than the port range holds included
C32_EndedNothingPending ==
  RunEnded =>
    /\ tellyoStatus.state # "pending"
    /\ cloudStatus.state # "pending"
    /\ StepsIn("running") = {}

\* the same for the profiles whose platform intents fit the port range
C32_EndedInRange == ~RangeExhausted(profiles.outputs) => C32_EndedNothingPending

\* a step taken while safe mode is on sends no request, opens no dialog and changes no
\* profile, no status, no name: nothing but the signal that a write was blocked
C33_SafeStep ==
  safeMode =>
    /\ calls' = calls /\ rWrites' = rWrites /\ toggleCalls' = toggleCalls
    /\ delCalls' = delCalls /\ cmdCalls' = cmdCalls
    /\ confirmData' = confirmData /\ delId' = delId
    /\ profiles' = profiles /\ alwaysOn' = alwaysOn /\ deviceName' = deviceName
    /\ tellyoStatus' = tellyoStatus /\ cloudStatus' = cloudStatus
    /\ pc' = pc /\ rpc' = rpc /\ tpc' = tpc /\ dpc' = dpc /\ cpc' = cpc
    /\ blocked'

\* C33: while safeMode is on none of configure, bulk restart, toggle, device command,
\* rename, channel delete, ingest delete or ingest enable/disable issues a request to the
\* device or to a registry, shows a confirmation dialog or changes a profile; each only
\* signals that the write was blocked
C33_SafeModeBlocks == [][C33_SafeStep]_vars

\* safe mode on and a handler has signalled the blocked write
C33_Signalled == safeMode /\ blocked /\ Truthy(profiles.tellyo.lastChannelId)

\* a channel request goes where the claim says: to the legacy endpoint, the
\* organization id in the body of a create or update, when the version is v1 or no
\* numeric organization id is available; else to the v2 resource path of the numeric
\* id, POST to create and PUT to update, no organization id in the body
DialectRight(r) ==
  LET legacy == r.call.version = "v1" \/ r.orgNumeric = Undefined
  IN IF legacy
     THEN /\ r.url.dialect = "v1"
          /\ r.url.verb = (IF r.call.op = "create" THEN "add" ELSE "edit")
          /\ r.call.op # "delete" => r.method = "POST" /\ r.bodyOrg # <<>>
     ELSE /\ r.url.dialect = "v2"
          /\ r.url.org = r.orgNumeric /\ r.url.org >= 0
          /\ r.url.id = r.call.channelId
          /\ r.call.op = "create" => r.method = "POST"
          /\ r.call.op = "update" => r.method = "PUT"
          /\ r.bodyOrg = <<>>

\* C34: every create / update / delete channel request, for every version and every
\* kind of organization identifier, goes to the legacy endpoint exactly when the version
\* is v1 or no numeric organization id is available, and else to the v2 path of the
\* numeric id; the URL chosen by tellyoChannelEndpoint and the body chosen by the caller
\* agree
C34_DialectConsistent ==
  \A i \in 1..Len(chanReqs) : ~chanReqs[i].thrown => DialectRight(chanReqs[i])

\* the same for the calls whose numeric organization id is known
C34_NumericKnown ==
  \A i \in 1..Len(chanReqs) :
    (~chanReqs[i].thrown /\ chanReqs[i].orgNumeric # Undefined) => DialectRight(chanReqs[i])

\* getSrtUrl was called with a device IP
SrtReturned == srtOut # <<>> /\ srtIn.videonIp # ""

\* the call edits a channel of the list that has a stream URL with a port
SrtEdits ==
  \E i \in 1..Len(srtIn.existingChannels) :
    /\ srtIn.existingChannels[i].id = srtIn.currentChannelId
    /\ extractPort(srtIn.existingChannels[i].streamUrl) # Undefined

\* C35: an edit of a channel that has a port returns that port; for a new channel the
\* port lies in PORT_MIN..PORT_MAX, is the port of no existing channel whenever a port
\* of the range is unused, and is PORT_MIN when every port of the range is used
C35_PortChoice ==
  SrtReturned =>
    LET chs == srtIn.existingChannels
        out == srtOut[1].port
        free == (PORT_MIN..PORT_MAX) \ PortsOf(chs)
    IN /\ SrtEdits =>
            \E i \in 1..Len(chs) : /\ chs[i].id = srtIn.currentChannelId
                                   /\ out = extractPort(chs[i].streamUrl)
       /\ srtIn.currentChannelId = Undefined =>
            /\ out \in PORT_MIN..PORT_MAX
            /\ free # {} => out \notin PortsOf(chs)
            /\ free = {} => out = PORT_MIN

\* the same without the two promises about the port being unused: reuse on edit, and a
\* port of the range for a new channel
C35_ReuseAndRange ==
  SrtReturned =>
    LET chs == srtIn.existingChannels
        out == srtOut[1].port
    IN /\ SrtEdits =>
            \E i \in 1..Len(chs) : /\ chs[i].id = srtIn.currentChannelId
                                   /\ out = extractPort(chs[i].streamUrl)
       /\ srtIn.currentChannelId = Undefined => out \in PORT_MIN..PORT_MAX

\* a new channel never gets PORT_MIN by wrap-around: with the whole range in use the
\* returned port is PORT_MAX
C35_NoWrapAround ==
  (SrtReturned /\ srtIn.existingChannels = FullRange /\ srtIn.currentChannelId = Undefined)
    => srtOut[1].port = PORT_MAX

\* the credentials of the settings
Credentials(s) == {s.jwt, s.bearer, s.tellyo.token, s.cloudport.userAuthToken} \ {""}

\* the keys of local storage whose item holds one of the credentials
KeysHolding(s) ==
  {k \in StorageKeys :
     /\ localStorage[k] # <<>>
     /\ IF k = "lec.tellyo" THEN localStorage[k][1].token \in Credentials(s)
        ELSE IF k = "lec.cloudport" THEN localStorage[k][1].userAuthToken \in Credentials(s)
        ELSE localStorage[k][1] \in Credentials(s)}

\* C36: when 'Remember API tokens on this device' is off and the persist effect has
\* run, no key of local storage holds a credential, and the credentials are in session
\* storage
C36_NoSecretInLocalStorage ==
  (spc = "Ready" /\ ~settings.rememberSecrets) =>
    /\ KeysHolding(settings) = {}
    /\ sessionStorage = PersistSession(settings)

\* the same, the key lec.bearer left aside
C36_OnlyBearerKey ==
  (spc = "Ready" /\ ~settings.rememberSecrets) =>
    /\ KeysHolding(settings) \subseteq {"lec.bearer"}
    /\ sessionStorage = PersistSession(settings)

\* the fields of the settings the round trip is claimed for
PlainFields(s) ==
  [safeMode |-> s.safeMode, bypassVideonError |-> s.bypassVideonError,
   pollRate |-> s.pollRate, orgGuid |-> s.orgGuid, base |-> s.base, accent |-> s.accent]

\* the load effect of a reload has run on settings that were persisted with
\* rememberSecrets on
Restored == spc = "Loaded" /\ persisted.rememberSecrets /\ nSaves > 0

\* C37: settings persisted with rememberSecrets on and loaded on the next mount have
\* the same safeMode, bypassVideonError, pollRate, orgGuid, base and accent
C37_RoundTrip == Restored => PlainFields(settings) = PlainFields(persisted)

\* C37, the named case: safeMode = false is restored as false
C37_SafeModeOff ==
  (Restored /\ ~persisted.safeMode) => ~settings.safeMode

\* the fields that do come back: bypassVideonError, pollRate, base and accent
C37_RestoredFields ==
  Restored =>
    /\ settings.bypassVideonError = persisted.bypassVideonError
    /\ settings.pollRate = persisted.pollRate
    /\ settings.base = persisted.base
    /\ settings.accent = persisted.accent
    /\ settings.safeMode
    /\ settings.orgGuid = ""

\* a step of the polling effect keeps it single-flight: at most one load is in progress
\* and busy is set exactly while one is; a load starts only when none is in progress
\* and the effect is not cleaned up
C38_PollStep ==
  /\ Len(loads') <= 1
  /\ busy' <=> loads' # <<>>
  /\ started' # started => (loads = <<>> /\ ~busy /\ alive /\ epc # "Cleaned")
  /\ (ticks' # ticks /\ loads # <<>>) => (started' = started /\ loads' = loads)
  /\ (ticks' # ticks /\ loads = <<>> /\ alive) => started' = started + 1

\* C38: within one polling effect at most one load is in progress at any time (a tick
\* during a load starts none), busy is cleared after every load, failed or not, so the
\* next tick starts a load again, and no load starts after the cleanup
C38_SingleFlight == [][C38_PollStep]_vars

\* a tick was refused during a load, a load failed, a later load started, and the
\* effect was cleaned up with no load left
C38_Polled ==
  /\ refused > 0 /\ loadsFailed > 0 /\ started >= 2
  /\ epc = "Cleaned" /\ loads = <<>> /\ ~busy

====
